---- MODULE Spec2Model ----
(***************************************************************************)
(* A model of aves: the sample sources (ReadSensorFile, ReadSensorSerial), *)
(* the sample sink (WriteSensorFile), the bounded buffers (DataBuffers)    *)
(* and the acquisition run (RealTimeAnalysis, DataExplorer).               *)
(*                                                                         *)
(* Text is modelled as sequences of one-character strings, so that         *)
(* formatting (str, join) and parsing (split, float) are computed and not  *)
(* assumed.  A Python value is a record: [t |-> "str", s |-> chars],       *)
(* [t |-> "int", m |-> n, e |-> 0] or [t |-> "float", m |-> n, e |-> k]    *)
(* (the decimal number n / 10^k, normalised so that k = 0 or n is no       *)
(* multiple of 10).                                                        *)
(***************************************************************************)
EXTENDS Integers, Sequences, FiniteSets, TLC

VARIABLES
    data,           \* DataBuffers.data: field name -> deque [items, maxlen]
    maxlen,         \* DataBuffers.maxlen (NoneLen when unset)
    appended,       \* history: the samples given to append/appendleft, in call order
    sides,          \* history: the ends used so far, a subset of {"right", "left"}
    kind,           \* which source: "file" (ReadSensorFile) or "serial" (ReadSensorSerial)
    filename,       \* ReadSensorFile._filename ("None" or a name)
    disk,           \* the lines of the replay file, each a sequence of characters
    file,           \* ReadSensorFile._file: [state: "None"|"open"|"closed", pos]
    port,           \* ReadSensorSerial._inputdata: "None" | "open" | "closed"
    dev,            \* the lines the device has sent and the source has not read
    arrived,        \* history: the lines the device has sent during the run, in order
    stop_sampling,  \* ReadSensorAbstract._stop_sampling
    srcHist,        \* history: [openCalled, rewound] of the source
    ret,            \* the value returned by the last call
    err,            \* the exception raised by the last call ("none" if it returned)
    lastOp,         \* history: the last operation, its argument and the state before it
    sink,           \* WriteSensorFile: [filename, fp: "None"|"open"|"closed"]
    out,            \* the lines of the destination file
    written,        \* history: the samples passed to write, in order
    fs,             \* the paths that exist: directories made and files created
    cfg,            \* the run's configuration and command line
    windowClosed,   \* the viewer's window was closed by the user
    now,            \* datetime.datetime.now(), in ticks
    pc,             \* position of the acquisition run
    run,            \* history of the run: opens and closes of source and sink
    pulled,         \* history: the samples readsamples returned to the loop
    view            \* SensorViewerGUI: [xlimits, xlim, points]

vars == <<data, maxlen, appended, sides, kind, filename, disk, file, port,
          dev, arrived, stop_sampling, srcHist, ret, err, lastOp, sink, out, written, now,
          cfg, windowClosed, pc, run, fs, pulled, view>>

bufVars == <<data, maxlen, appended, sides>>
srcVars == <<kind, filename, disk, file, port, dev, arrived, stop_sampling, srcHist>>
sinkVars == <<sink, out, written, fs>>
runVars == <<cfg, windowClosed, pc, run, pulled, view>>

-----------------------------------------------------------------------------
(* Bounds of the model. *)

MaxLen == 3
MaxAppends == 4
MaxBatch == 2

(* maxlen=None: the deques are unbounded. *)
NoneLen == -1

Min(a, b) == IF a <= b THEN a ELSE b

-----------------------------------------------------------------------------
(* Text: str, join, split, float. *)

DigitChars == <<"0", "1", "2", "3", "4", "5", "6", "7", "8", "9">>

IsDigit(c) == \E i \in 1..10 : DigitChars[i] = c

DigitVal(c) == (CHOOSE i \in 1..10 : DigitChars[i] = c) - 1

IsSpace(c) == c \in {" ", "\t", "\n"}

RECURSIVE Pow10(_)
Pow10(k) == IF k = 0 THEN 1 ELSE 10 * Pow10(k - 1)

(* str(n) of a non-negative int. *)
RECURSIVE NatStr(_)
NatStr(n) == IF n < 10 THEN <<DigitChars[n + 1]>>
             ELSE NatStr(n \div 10) \o <<DigitChars[(n % 10) + 1]>>

(* k decimal digits of n, zero padded on the left. *)
RECURSIVE PadStr(_, _)
PadStr(n, k) == IF k = 0 THEN << >>
                ELSE PadStr(n \div 10, k - 1) \o <<DigitChars[(n % 10) + 1]>>

Abs(n) == IF n < 0 THEN 0 - n ELSE n

Sign(n) == IF n < 0 THEN <<"-">> ELSE << >>

(* A float n / 10^k with trailing zero digits of the fraction removed. *)
RECURSIVE Normal(_, _)
Normal(n, k) == IF k > 0 /\ n % 10 = 0 THEN Normal(n \div 10, k - 1)
                ELSE [t |-> "float", m |-> n, e |-> k]

StrVal(s) == [t |-> "str", s |-> s]
IntVal(n) == [t |-> "int", m |-> n, e |-> 0]
FloatVal(n, k) == Normal(n, k)

(* str(value): a str is itself, an int its digits, a float its shortest
   decimal form, which always shows a fraction ("2.0"). *)
str(v) ==
    CASE v.t = "str" -> v.s
      [] v.t = "int" -> Sign(v.m) \o NatStr(Abs(v.m))
      [] v.t = "float" ->
            Sign(v.m) \o NatStr(Abs(v.m) \div Pow10(v.e)) \o <<".">> \o
            (IF v.e = 0 THEN <<"0">> ELSE PadStr(Abs(v.m) % Pow10(v.e), v.e))

(* Python's ==: numbers compare by value (2 == 2.0), a str only equals a str. *)
PyEq(v, w) ==
    IF v.t = "str" \/ w.t = "str" THEN v = w
    ELSE v.m * Pow10(w.e) = w.m * Pow10(v.e)

(* sep.join(parts) *)
RECURSIVE join(_, _)
join(sep, parts) ==
    IF parts = << >> THEN << >>
    ELSE IF Len(parts) = 1 THEN parts[1]
    ELSE parts[1] \o sep \o join(sep, Tail(parts))

(* line.split(): the maximal runs of non-whitespace characters. *)
RECURSIVE SplitFrom(_, _, _)
SplitFrom(s, cur, acc) ==
    IF s = << >> THEN (IF cur = << >> THEN acc ELSE Append(acc, cur))
    ELSE IF IsSpace(Head(s))
         THEN SplitFrom(Tail(s), << >>, IF cur = << >> THEN acc ELSE Append(acc, cur))
         ELSE SplitFrom(Tail(s), Append(cur, Head(s)), acc)

split(s) == SplitFrom(s, << >>, << >>)

RECURSIVE DigitsVal(_, _)
DigitsVal(s, acc) == IF s = << >> THEN acc
                     ELSE DigitsVal(Tail(s), 10 * acc + DigitVal(Head(s)))

AllDigits(s) == \A i \in 1..Len(s) : IsDigit(s[i])

DotAt(s) == IF \E i \in 1..Len(s) : s[i] = "."
            THEN CHOOSE i \in 1..Len(s) : s[i] = "." /\ \A j \in 1..(i - 1) : s[j] # "."
            ELSE 0

(* float(token) for decimal literals: an optional sign, digits with at most
   one point and at least one digit.  Anything else is a ValueError. *)
UnsignedOK(s) ==
    LET d == DotAt(s)
    IN  IF d = 0 THEN s # << >> /\ AllDigits(s)
        ELSE /\ AllDigits(SubSeq(s, 1, d - 1))
             /\ AllDigits(SubSeq(s, d + 1, Len(s)))
             /\ Len(s) > 1

UnsignedVal(s) ==
    LET d == DotAt(s)
    IN  IF d = 0 THEN FloatVal(DigitsVal(s, 0), 0)
        ELSE FloatVal(DigitsVal(SubSeq(s, 1, d - 1) \o SubSeq(s, d + 1, Len(s)), 0),
                      Len(s) - d)

Negate(v) == [v EXCEPT !.m = 0 - v.m]

FloatOK(s) ==
    IF s # << >> /\ Head(s) \in {"-", "+"} THEN UnsignedOK(Tail(s)) ELSE UnsignedOK(s)

float(s) ==
    IF Head(s) = "-" THEN Negate(UnsignedVal(Tail(s)))
    ELSE IF Head(s) = "+" THEN UnsignedVal(Tail(s))
    ELSE UnsignedVal(s)

-----------------------------------------------------------------------------
(* collections.deque with a maxlen. *)

NewDeque(m) == [items |-> << >>, maxlen |-> m]

(* A mutant of deque_append: a full deque keeps growing. *)
deque_append_NoEvict(q, v) == [q EXCEPT !.items = Append(q.items, v)]

deque_append(q, v) ==
    IF q.maxlen = NoneLen THEN [q EXCEPT !.items = Append(q.items, v)]
    ELSE IF q.maxlen = 0 THEN q
    ELSE IF Len(q.items) = q.maxlen
         THEN [q EXCEPT !.items = Append(Tail(q.items), v)]
         ELSE [q EXCEPT !.items = Append(q.items, v)]

(* A mutant of deque_appendleft: a full deque drops its newest entry (the
   leftmost) instead of its oldest. *)
deque_appendleft_DropNewest(q, v) ==
    IF q.maxlen = NoneLen THEN [q EXCEPT !.items = <<v>> \o q.items]
    ELSE IF q.maxlen = 0 THEN q
    ELSE IF Len(q.items) = q.maxlen
         THEN [q EXCEPT !.items = <<v>> \o Tail(q.items)]
         ELSE [q EXCEPT !.items = <<v>> \o q.items]

deque_appendleft(q, v) ==
    IF q.maxlen = NoneLen THEN [q EXCEPT !.items = <<v>> \o q.items]
    ELSE IF q.maxlen = 0 THEN q
    ELSE IF Len(q.items) = q.maxlen
         THEN [q EXCEPT !.items = <<v>> \o SubSeq(q.items, 1, Len(q.items) - 1)]
         ELSE [q EXCEPT !.items = <<v>> \o q.items]

(* deque(values, maxlen=m): the values are appended one by one. *)
RECURSIVE DequeOf(_, _)
DequeOf(values, m) ==
    IF values = << >> THEN NewDeque(m)
    ELSE deque_append(DequeOf(SubSeq(values, 1, Len(values) - 1), m),
                      values[Len(values)])

-----------------------------------------------------------------------------
(* DataBuffers.  data is a defaultdict: a field is created, as an empty deque
   of the maxlen given to __init__, the first time a sample names it. *)

Field(d, m, f) == IF f \in DOMAIN d THEN d[f] ELSE NewDeque(m)

(* A mutant of DataBuffers_append: the field "a" is extended twice. *)
DataBuffers_append_Twice(d, m, sample) ==
    [f \in (DOMAIN d) \cup (DOMAIN sample) |->
        IF f \in DOMAIN sample
        THEN IF f = "a"
             THEN deque_append(deque_append(Field(d, m, f), sample[f]), sample[f])
             ELSE deque_append(Field(d, m, f), sample[f])
        ELSE d[f]]

DataBuffers_append(d, m, sample) ==
    [f \in (DOMAIN d) \cup (DOMAIN sample) |->
        IF f \in DOMAIN sample THEN deque_append(Field(d, m, f), sample[f])
        ELSE d[f]]

DataBuffers_appendleft(d, m, sample) ==
    [f \in (DOMAIN d) \cup (DOMAIN sample) |->
        IF f \in DOMAIN sample THEN deque_appendleft(Field(d, m, f), sample[f])
        ELSE d[f]]

RECURSIVE DataBuffers_extend(_, _, _)
DataBuffers_extend(d, m, samples) ==
    IF samples = << >> THEN d
    ELSE DataBuffers_extend(DataBuffers_append(d, m, Head(samples)), m, Tail(samples))

(* A mutant of DataBuffers_extendleft: only the first sample is added. *)
DataBuffers_extendleft_FirstOnly(d, m, samples) ==
    IF samples = << >> THEN d
    ELSE DataBuffers_appendleft(d, m, Head(samples))

RECURSIVE DataBuffers_extendleft(_, _, _)
DataBuffers_extendleft(d, m, samples) ==
    IF samples = << >> THEN d
    ELSE DataBuffers_extendleft(DataBuffers_appendleft(d, m, Head(samples)), m,
                                Tail(samples))

(* The local dictionary set_maxlen builds: every field copied into a deque of
   the new maxlen, keeping its first newMax values. *)
set_maxlen_local(d, newMax) ==
    [f \in DOMAIN d |->
        IF newMax = NoneLen THEN DequeOf(d[f].items, NoneLen)
        ELSE DequeOf(SubSeq(d[f].items, 1, Min(newMax, Len(d[f].items))), newMax)]

(* set_maxlen returns without storing the dictionary it built: self.data and
   self.maxlen are what they were. *)
DataBuffers_set_maxlen(d, m, newMax) ==
    LET local == set_maxlen_local(d, newMax)
    IN  [data |-> d, maxlen |-> m]

-----------------------------------------------------------------------------
(* Values and samples the model draws its inputs from. *)

T0 == StrVal(<<"t", "0">>)
T1 == StrVal(<<"t", "1">>)
T2 == StrVal(<<"t", "2">>)

(* The configured columns ("columns" of the configuration's output section). *)
Columns == <<"time", "a", "b">>

ColumnSet == {Columns[i] : i \in 1..Len(Columns)}

Sample(t, a, b) == [f \in ColumnSet |-> IF f = "time" THEN t ELSE IF f = "a" THEN a ELSE b]

(* Samples with one key set: the three readings of the documented scenario. *)
S0 == Sample(T0, FloatVal(10, 1), FloatVal(20, 1))
S1 == Sample(T1, FloatVal(15, 1), FloatVal(25, 1))
S2 == Sample(T2, FloatVal(20, 1), FloatVal(30, 1))

BufSamples == {S0, S1, S2}

RECURSIVE SeqsUpTo(_, _)
SeqsUpTo(S, n) ==
    IF n = 0 THEN {<< >>}
    ELSE LET shorter == SeqsUpTo(S, n - 1)
         IN  shorter \cup {Append(q, x) : q \in shorter, x \in S}

MaxlenChoices == {NoneLen} \cup (0..MaxLen)

NoCall == [op |-> "init"]

-----------------------------------------------------------------------------
(* Initial values of the parts a specification does not use. *)

IdleBuf ==
    /\ data = << >>
    /\ maxlen = NoneLen
    /\ appended = << >>
    /\ sides = {}

IdleSrc ==
    /\ kind = "file"
    /\ filename = "None"
    /\ disk = << >>
    /\ file = [state |-> "None", pos |-> 0]
    /\ port = "None"
    /\ dev = << >>
    /\ arrived = << >>
    /\ stop_sampling = FALSE
    /\ srcHist = [openCalled |-> FALSE, rewound |-> FALSE]

IdleSink ==
    /\ sink = [filename |-> "None", fp |-> "None"]
    /\ out = << >>
    /\ written = << >>
    /\ fs = {}

NoCfg == [version |-> 2, hasOutput |-> TRUE, hasGui |-> FALSE, outfile |-> "None",
          limited |-> FALSE, tmeas |-> 0, K |-> 0, x_column |-> "a",
          columns |-> <<"b">>]

(* A viewer that has been given nothing: _xlimits is None, the axes keep
   their default limits and the lines hold no data. *)
NoView == [xlimits |-> [t |-> "None"], xlim |-> [t |-> "None"], points |-> << >>]

IdleRun ==
    /\ pc = "idle"
    /\ cfg = NoCfg
    /\ windowClosed = FALSE
    /\ run = [srcOpen |-> 0, srcClose |-> 0, sinkOpen |-> 0, sinkClose |-> 0]
    /\ pulled = << >>
    /\ view = NoView

IdleCall ==
    /\ ret = [t |-> "None"]
    /\ err = "none"
    /\ lastOp = NoCall
    /\ now = 0

-----------------------------------------------------------------------------
(* DataBuffers: __init__ and the five operations, called in any order. *)

InitBuf ==
    /\ maxlen \in MaxlenChoices
    /\ data = << >>
    /\ appended = << >>
    /\ sides = {}
    /\ IdleSrc /\ IdleSink /\ IdleRun /\ IdleCall

BufFrame == UNCHANGED <<srcVars, sinkVars, runVars, ret, err, now>>

BufAppend ==
    \E s \in BufSamples :
        /\ Len(appended) < MaxAppends
        /\ data' = DataBuffers_append(data, maxlen, s)
        /\ appended' = Append(appended, s)
        /\ sides' = sides \cup {"right"}
        /\ lastOp' = [op |-> "append"]
        /\ UNCHANGED maxlen
        /\ BufFrame

BufAppendLeft ==
    \E s \in BufSamples :
        /\ Len(appended) < MaxAppends
        /\ data' = DataBuffers_appendleft(data, maxlen, s)
        /\ appended' = Append(appended, s)
        /\ sides' = sides \cup {"left"}
        /\ lastOp' = [op |-> "appendleft"]
        /\ UNCHANGED maxlen
        /\ BufFrame

BufExtend ==
    \E ss \in SeqsUpTo(BufSamples, MaxBatch) :
        /\ Len(appended) + Len(ss) <= MaxAppends
        /\ data' = DataBuffers_extend(data, maxlen, ss)
        /\ appended' = appended \o ss
        /\ sides' = IF ss = << >> THEN sides ELSE sides \cup {"right"}
        /\ lastOp' = [op |-> "extend"]
        /\ UNCHANGED maxlen
        /\ BufFrame

BufExtendLeft ==
    \E ss \in SeqsUpTo(BufSamples, MaxBatch) :
        /\ Len(appended) + Len(ss) <= MaxAppends
        /\ data' = DataBuffers_extendleft(data, maxlen, ss)
        /\ appended' = appended \o ss
        /\ sides' = IF ss = << >> THEN sides ELSE sides \cup {"left"}
        /\ lastOp' = [op |-> "extendleft"]
        /\ UNCHANGED maxlen
        /\ BufFrame

BufSetMaxlen ==
    \E newMax \in MaxlenChoices :
        LET after == DataBuffers_set_maxlen(data, maxlen, newMax)
        IN  /\ data' = after.data
            /\ maxlen' = after.maxlen
            /\ lastOp' = [op |-> "set_maxlen", arg |-> newMax, pre |-> data]
            /\ UNCHANGED <<appended, sides>>
            /\ BufFrame

NextBuf == BufAppend \/ BufAppendLeft \/ BufExtend \/ BufExtendLeft \/ BufSetMaxlen

SpecBuf == InitBuf /\ [][NextBuf]_vars

-----------------------------------------------------------------------------
(* Properties of DataBuffers. *)

FieldValues(f) == [i \in 1..Len(appended) |-> appended[i][f]]

LastK(s, k) == SubSeq(s, Len(s) - k + 1, Len(s))

Reverse(s) == [i \in 1..Len(s) |-> s[Len(s) + 1 - i]]

Cap(n) == IF maxlen = NoneLen THEN n ELSE Min(n, maxlen)

(* C1: after n append or appendleft calls on a DataBuffers created with
   maxlen = m, with samples of one key set, every field's sequence has
   length min(n, m), and length n when maxlen is unset. *)
C1_LengthIsCappedCount ==
    /\ DOMAIN data = (IF appended = << >> THEN {} ELSE ColumnSet)
    /\ \A f \in DOMAIN data : Len(data[f].items) = Cap(Len(appended))

(* More samples were appended than a bounded buffer holds. *)
C1_Witness ==
    /\ maxlen = 2
    /\ Len(appended) = 3
    /\ DOMAIN data = ColumnSet
    /\ \A f \in DOMAIN data : Len(data[f].items) = 2

(* C2: FIFO eviction.  When only append/extend were used, each field holds
   the values of the most recent maxlen samples in arrival order; when only
   appendleft/extendleft were used, it holds them newest first.  The oldest
   samples are the ones evicted. *)
C2_FifoEviction ==
    \A f \in DOMAIN data :
        /\ sides = {"right"} =>
              data[f].items = LastK(FieldValues(f), Cap(Len(appended)))
        /\ sides = {"left"} =>
              data[f].items = Reverse(LastK(FieldValues(f), Cap(Len(appended))))

(* Four samples went in at the left of a buffer of two, the last by extendleft. *)
C2_Witness ==
    /\ sides = {"left"}
    /\ maxlen = 2
    /\ Len(appended) = 4
    /\ lastOp.op = "extendleft"
    /\ data["time"].items = <<appended[4]["time"], appended[3]["time"]>>

(* C3: lock-step.  After every operation (append, appendleft, extend,
   extendleft, set_maxlen), in any order, all the field sequences present in
   the buffer have the same length. *)
C3_LockStep ==
    \A f \in DOMAIN data : \A g \in DOMAIN data :
        Len(data[f].items) = Len(data[g].items)

(* Both ends were used, then set_maxlen was called on a non-empty buffer. *)
C3_Witness ==
    /\ lastOp.op = "set_maxlen"
    /\ sides = {"right", "left"}
    /\ Len(appended) >= 3
    /\ DOMAIN data = ColumnSet

(* C4: set_maxlen(newMax) on fields of L entries keeps all L entries when
   newMax >= L or newMax is unset; when newMax < L every field afterwards
   holds exactly its first newMax entries and the size limit is newMax. *)
C4_SetMaxlenTruncates ==
    lastOp.op = "set_maxlen" =>
        \A f \in DOMAIN lastOp.pre :
            LET before == lastOp.pre[f].items
                newMax == lastOp.arg
            IN  IF newMax = NoneLen \/ newMax >= Len(before)
                THEN f \in DOMAIN data /\ data[f].items = before
                ELSE /\ f \in DOMAIN data
                     /\ data[f].items = SubSeq(before, 1, newMax)
                     /\ maxlen = newMax

-----------------------------------------------------------------------------
(* The replay file and the device: the lines the sources read. *)

MaxLines == 3
MaxDev == 3

(* A column name as it stands in a header line: one unit of text. *)
NameText(name) == <<name>>

NameTexts(cols) == [i \in 1..Len(cols) |-> NameText(cols[i])]

(* "# %s\n" % datetime.datetime.now() *)
StampLine(t) == <<"#", " ">> \o NatStr(t) \o <<"\n">>

(* "#" + "\t".join(columns) + "\n" *)
ColumnsLine(cols) == <<"#">> \o join(<<"\t">>, NameTexts(cols)) \o <<"\n">>

(* The data lines of the documented scenario, separated by spaces. *)
D0 == <<"t", "0", " ", "1", ".", "0", " ", "2", ".", "0", "\n">>
D1 == <<"t", "1", " ", "1", ".", "5", " ", "2", ".", "5", "\n">>
D2 == <<"t", "2", " ", "2", ".", "0", " ", "3", ".", "0", "\n">>

(* A data line whose second field is no number, and one whose last is none. *)
BadLine == <<"t", "3", " ", "x", " ", "1", ".", "0", "\n">>
BadLast == <<"t", "4", " ", "1", ".", "0", " ", "1", ".", ".", "\n">>

(* Data lines with a field too few, with a field too many, and a blank line. *)
ShortData == <<"t", "5", " ", "1", ".", "0", "\n">>
LongData == <<"t", "6", " ", "1", ".", "0", " ", "2", ".", "0", " ", "9", "\n">>
BlankLine == <<"\n">>

(* Replay files are well formed by construction: comment lines and data
   lines with one token and a number per further column. *)
FileLines == {ColumnsLine(Columns), D0, D1, D2}

(* The device's columns, (name, conversion_factor), from "arduino.columns". *)
SerialFields == <<[name |-> "a", factor |-> 1], [name |-> "b", factor |-> 2]>>

TIME_COMPUTER == "time_computer"

(* What the device sends: a well-formed line, a line one field short, a line
   that is no number, an empty line. *)
G0 == <<"1", ".", "0", " ", "2", ".", "0", "\n">>
G1 == <<"1", ".", "5", " ", "2", ".", "5", "\n">>
ShortLine == <<"1", ".", "0", "\n">>
GarbageLine == <<"x", " ", "2", ".", "0", "\n">>

DevLines == {G0, G1, ShortLine, GarbageLine}

None == [t |-> "None"]
SampleRet(sample) == [t |-> "sample", v |-> sample]
ListRet(samples) == [t |-> "list", v |-> samples]

-----------------------------------------------------------------------------
(* ReadSensorFile.  A call's outcome is [pos, stop, ret, err]: the file
   position and the flag it leaves, and what it returns or raises. *)

(* A mutant of SkipComments: one comment line at most is skipped. *)
SkipComments_One(lines, pos) ==
    IF pos >= Len(lines) THEN [eof |-> TRUE, pos |-> pos]
    ELSE IF lines[pos + 1][1] # "#"
    THEN [eof |-> FALSE, pos |-> pos + 1, line |-> lines[pos + 1]]
    ELSE IF pos + 1 >= Len(lines) THEN [eof |-> TRUE, pos |-> pos + 1]
    ELSE [eof |-> FALSE, pos |-> pos + 2, line |-> lines[pos + 2]]

(* line = '#'; while line[0] == '#': line = readline(); an empty read is the
   end of the file. *)
RECURSIVE SkipComments(_, _)
SkipComments(lines, pos) ==
    IF pos >= Len(lines) THEN [eof |-> TRUE, pos |-> pos]
    ELSE IF lines[pos + 1][1] = "#" THEN SkipComments(lines, pos + 1)
    ELSE [eof |-> FALSE, pos |-> pos + 1, line |-> lines[pos + 1]]

(* A mutant of DataAcq: the numbers are kept as the text read. *)
DataAcq_NoFloat(fields) == [i \in 1..Len(fields) |-> StrVal(fields[i])]

(* [fields[0]] + [float(val) for val in fields[1:]] *)
DataAcq(fields) ==
    [i \in 1..Len(fields) |-> IF i = 1 THEN StrVal(fields[1]) ELSE float(fields[i])]

(* A mutant of File_readsample: a line with a field that is no number is
   skipped and the next line is read, as the live source does. *)
RECURSIVE File_readsample_SkipBad(_, _, _, _)
File_readsample_SkipBad(lines, cols, pos, stop) ==
    LET got == SkipComments(lines, pos)
    IN  IF got.eof
        THEN [pos |-> got.pos, stop |-> TRUE, ret |-> None, err |-> "none"]
        ELSE LET fields == split(got.line)
             IN  IF \/ fields = << >>
                    \/ \E i \in 2..Len(fields) : ~FloatOK(fields[i])
                    \/ Len(fields) < Len(cols)
                 THEN File_readsample_SkipBad(lines, cols, got.pos, stop)
                 ELSE [pos |-> got.pos, stop |-> stop,
                       ret |-> SampleRet(
                           [f \in {cols[i] : i \in 1..Len(cols)} |->
                               DataAcq(fields)[CHOOSE i \in 1..Len(cols) : cols[i] = f]]),
                       err |-> "none"]

File_readsample(lines, cols, pos, stop) ==
    LET got == SkipComments(lines, pos)
    IN  IF got.eof
        THEN [pos |-> got.pos, stop |-> TRUE, ret |-> None, err |-> "none"]
        ELSE LET fields == split(got.line)
                 after == [pos |-> got.pos, stop |-> stop, ret |-> None]
             IN  IF fields = << >>
                 THEN after @@ [err |-> "IndexError"]
                 ELSE IF \E i \in 2..Len(fields) : ~FloatOK(fields[i])
                 THEN after @@ [err |-> "ValueError"]
                 ELSE IF Len(fields) < Len(cols)
                 THEN after @@ [err |-> "IndexError"]
                 ELSE LET data_acq == DataAcq(fields)
                      IN  [pos |-> got.pos, stop |-> stop,
                           ret |-> SampleRet(
                               [f \in {cols[i] : i \in 1..Len(cols)} |->
                                   data_acq[CHOOSE i \in 1..Len(cols) :
                                       cols[i] = f /\ \A j \in (i + 1)..Len(cols) :
                                           cols[j] # f]]),
                           err |-> "none"]

(* A mutant of File_readsamples: the sentinel is left in the list. *)
RECURSIVE File_readsamples_KeepNone(_, _, _, _, _, _)
File_readsamples_KeepNone(lines, cols, pos, stop, go_on, output) ==
    IF go_on = 0
    THEN [pos |-> pos, stop |-> stop, ret |-> ListRet(output), err |-> "none"]
    ELSE LET r == File_readsample(lines, cols, pos, stop)
         IN  IF r.ret = None
             THEN [pos |-> r.pos, stop |-> r.stop,
                   ret |-> ListRet(Append(output, None)), err |-> "none"]
             ELSE File_readsamples_KeepNone(lines, cols, r.pos, r.stop, go_on - 1,
                                            Append(output, r.ret.v))

(* go_on = num_samples; while go_on != 0: read, count down, stop at None. *)
RECURSIVE File_readsamples(_, _, _, _, _, _)
File_readsamples(lines, cols, pos, stop, go_on, output) ==
    IF go_on = 0
    THEN [pos |-> pos, stop |-> stop, ret |-> ListRet(output), err |-> "none"]
    ELSE LET r == File_readsample(lines, cols, pos, stop)
         IN  IF r.err # "none" THEN r
             ELSE IF r.ret = None
             THEN [pos |-> r.pos, stop |-> r.stop, ret |-> ListRet(output),
                   err |-> "none"]
             ELSE File_readsamples(lines, cols, r.pos, r.stop, go_on - 1,
                                   Append(output, r.ret.v))

-----------------------------------------------------------------------------
(* ReadSensorSerial.  A call's outcome is [dev, stop, ret, err]. *)

Scale(v, factor) == FloatVal(v.m * factor, v.e)

(* The line is accepted when every token is a number and there is one per
   device column; otherwise it is discarded and the read is tried again. *)
LineOK(line, fields) ==
    LET toks == split(line)
    IN  /\ \A i \in 1..Len(toks) : FloatOK(toks[i])
        /\ Len(toks) = Len(fields)

(* A mutant of SerialLoop: a line that is not accepted ends the loop as an
   empty read does. *)
SerialLoop_StopAtBad(queue, fields) ==
    IF queue = << >> THEN [empty |-> TRUE, dev |-> queue]
    ELSE IF LineOK(Head(queue), fields)
         THEN [empty |-> FALSE, dev |-> Tail(queue), line |-> Head(queue)]
         ELSE [empty |-> TRUE, dev |-> Tail(queue)]

(* The while try_again loop: lines are read until one is accepted or a read
   returns nothing (the timeout). *)
RECURSIVE SerialLoop(_, _)
SerialLoop(queue, fields) ==
    IF queue = << >> THEN [empty |-> TRUE, dev |-> queue]
    ELSE IF LineOK(Head(queue), fields)
         THEN [empty |-> FALSE, dev |-> Tail(queue), line |-> Head(queue)]
         ELSE SerialLoop(Tail(queue), fields)

(* A mutant of SerialSample: the capture time is left out. *)
SerialSample_NoTime(line, fields, t) ==
    LET toks == split(line)
    IN  [f \in {fields[i].name : i \in 1..Len(fields)} |->
            LET i == CHOOSE i \in 1..Len(fields) :
                         fields[i].name = f /\ \A j \in (i + 1)..Len(fields) :
                             fields[j].name # f
            IN  Scale(float(toks[i]), fields[i].factor)]

SerialSample(line, fields, t) ==
    LET toks == split(line)
        names == {fields[i].name : i \in 1..Len(fields)} \cup {TIME_COMPUTER}
    IN  [f \in names |->
            IF f = TIME_COMPUTER THEN StrVal(NatStr(t))
            ELSE LET i == CHOOSE i \in 1..Len(fields) :
                             fields[i].name = f /\ \A j \in (i + 1)..Len(fields) :
                                 fields[j].name # f
                 IN  Scale(float(toks[i]), fields[i].factor)]

(* A mutant of Serial_readsample: the flag is not looked at after the loop,
   so an accepted line is returned even when the source had stopped. *)
Serial_readsample_IgnoreFlag(queue, fields, stop, t) ==
    LET got == SerialLoop(queue, fields)
    IN  IF got.empty
        THEN [dev |-> got.dev, stop |-> TRUE, ret |-> None, err |-> "none"]
        ELSE [dev |-> got.dev, stop |-> stop,
              ret |-> SampleRet(SerialSample(got.line, fields, t)), err |-> "none"]

Serial_readsample(queue, fields, stop, t) ==
    LET got == SerialLoop(queue, fields)
    IN  IF got.empty
        THEN [dev |-> got.dev, stop |-> TRUE, ret |-> None, err |-> "none"]
        ELSE IF stop
        THEN [dev |-> got.dev, stop |-> TRUE, ret |-> None, err |-> "none"]
        ELSE [dev |-> got.dev, stop |-> FALSE,
              ret |-> SampleRet(SerialSample(got.line, fields, t)), err |-> "none"]

(* A mutant of Serial_readsamples: the count is not looked at, samples are
   read until a read returns None. *)
RECURSIVE Serial_readsamples_NoCount(_, _, _, _, _, _)
Serial_readsamples_NoCount(queue, fields, stop, t, n, output) ==
    LET r == Serial_readsample(queue, fields, stop, t)
    IN  IF r.ret = None
        THEN [dev |-> r.dev, stop |-> r.stop, ret |-> ListRet(output), err |-> "none"]
        ELSE Serial_readsamples_NoCount(r.dev, fields, r.stop, t, n,
                                        Append(output, r.ret.v))

(* for _ in range(num_samples): read, stop at None. *)
RECURSIVE Serial_readsamples(_, _, _, _, _, _)
Serial_readsamples(queue, fields, stop, t, n, output) ==
    IF n <= 0
    THEN [dev |-> queue, stop |-> stop, ret |-> ListRet(output), err |-> "none"]
    ELSE LET r == Serial_readsample(queue, fields, stop, t)
         IN  IF r.ret = None
             THEN [dev |-> r.dev, stop |-> r.stop, ret |-> ListRet(output),
                   err |-> "none"]
             ELSE Serial_readsamples(r.dev, fields, r.stop, t, n - 1,
                                     Append(output, r.ret.v))

-----------------------------------------------------------------------------
(* A source, constructed and then used through open, close, readsample and
   readsamples in any order, while the device goes on sending lines. *)

NChoices == (-1)..MaxBatch

InitSrc ==
    /\ kind \in {"file", "serial"}
    /\ filename \in (IF kind = "file" THEN {"None", "log.txt"} ELSE {"COM5"})
    /\ disk \in (IF kind = "file" THEN SeqsUpTo(FileLines, MaxLines) ELSE {<< >>})
    /\ file = [state |-> "None", pos |-> 0]
    /\ port = "None"
    /\ dev = << >>
    /\ arrived = << >>
    /\ stop_sampling = FALSE
    /\ srcHist = [openCalled |-> FALSE, rewound |-> FALSE]
    /\ IdleBuf /\ IdleSink /\ IdleRun /\ IdleCall

SrcFrame == UNCHANGED <<bufVars, sinkVars, runVars, now, kind, filename, disk, arrived>>

Before == [file |-> file, port |-> port, dev |-> dev, stop |-> stop_sampling]

SourceOpen == IF kind = "file" THEN file.state = "open" ELSE port = "open"

(* ReadSensorFile.open: a file is opened only when a name was given, and a
   new handle starts at the first line.  ReadSensorSerial.open: the
   connection is made and the flag is cleared.  Either may fail. *)
SrcOpen ==
    \E ok \in BOOLEAN :
        /\ lastOp' = [op |-> "open", pre |-> Before]
        /\ ret' = None
        /\ IF kind = "file"
           THEN /\ IF filename = "None"
                   THEN err' = "none" /\ UNCHANGED file
                   ELSE IF ok
                        THEN err' = "none" /\ file' = [state |-> "open", pos |-> 0]
                        ELSE err' = "IOError" /\ UNCHANGED file
                /\ srcHist' = [openCalled |-> TRUE,
                               rewound |-> srcHist.rewound
                                   \/ (stop_sampling /\ filename # "None" /\ ok)]
                /\ UNCHANGED <<port, stop_sampling>>
           ELSE /\ IF ok
                   THEN err' = "none" /\ port' = "open" /\ stop_sampling' = FALSE
                   ELSE err' = "SerialException" /\ UNCHANGED <<port, stop_sampling>>
                /\ srcHist' = [srcHist EXCEPT !.openCalled = TRUE]
                /\ UNCHANGED file
        /\ UNCHANGED dev
        /\ SrcFrame

(* ReadSensorFile.close: self._file.close().  ReadSensorSerial.close: flush,
   close, and the flag is set. *)
SrcClose ==
    /\ lastOp' = [op |-> "close", pre |-> Before]
    /\ ret' = None
    /\ IF kind = "file"
       THEN /\ IF file.state = "None"
               THEN err' = "AttributeError" /\ UNCHANGED file
               ELSE err' = "none" /\ file' = [file EXCEPT !.state = "closed"]
            /\ UNCHANGED <<port, stop_sampling>>
       ELSE /\ CASE port = "None" ->
                      err' = "AttributeError" /\ UNCHANGED <<port, stop_sampling>>
                 [] port = "closed" ->
                      err' = "SerialException" /\ UNCHANGED <<port, stop_sampling>>
                 [] port = "open" ->
                      err' = "none" /\ port' = "closed" /\ stop_sampling' = TRUE
            /\ UNCHANGED file
    /\ UNCHANGED <<dev, srcHist>>
    /\ SrcFrame

(* What a read does when the source holds no open handle. *)
NoHandleError ==
    IF kind = "file"
    THEN (IF file.state = "None" THEN "AttributeError" ELSE "ValueError")
    ELSE (IF port = "None" THEN "AttributeError" ELSE "SerialException")

SrcApply(r) ==
    /\ ret' = r.ret
    /\ err' = r.err
    /\ stop_sampling' = r.stop
    /\ IF kind = "file"
       THEN file' = [file EXCEPT !.pos = r.pos] /\ UNCHANGED dev
       ELSE dev' = r.dev /\ UNCHANGED file
    /\ UNCHANGED <<port, srcHist>>

SrcFail ==
    /\ ret' = None
    /\ err' = NoHandleError
    /\ UNCHANGED <<file, port, dev, stop_sampling, srcHist>>

SrcReadSample ==
    /\ lastOp' = [op |-> "readsample", pre |-> Before]
    /\ IF ~SourceOpen THEN SrcFail
       ELSE IF kind = "file"
            THEN SrcApply(File_readsample(disk, Columns, file.pos, stop_sampling))
            ELSE SrcApply(Serial_readsample(dev, SerialFields, stop_sampling, now))
    /\ SrcFrame

SrcReadSamples ==
    \E n \in NChoices :
        /\ lastOp' = [op |-> "readsamples", n |-> n, pre |-> Before]
        /\ IF ~SourceOpen THEN SrcFail
           ELSE IF kind = "file"
                THEN SrcApply(File_readsamples(disk, Columns, file.pos, stop_sampling,
                                               n, << >>))
                ELSE SrcApply(Serial_readsamples(dev, SerialFields, stop_sampling, now,
                                                 n, << >>))
        /\ SrcFrame

(* The device sends one more line. *)
DevArrive ==
    \E line \in DevLines :
        /\ kind = "serial"
        /\ Len(dev) < MaxDev
        /\ dev' = Append(dev, line)
        /\ lastOp' = [op |-> "arrive"]
        /\ UNCHANGED <<file, port, stop_sampling, srcHist, ret, err>>
        /\ SrcFrame

NextSrc == SrcOpen \/ SrcClose \/ SrcReadSample \/ SrcReadSamples \/ DevArrive

SpecSrc == InitSrc /\ [][NextSrc]_vars

-----------------------------------------------------------------------------
(* Properties of the sources. *)

(* The samples the lines stand for, written out by hand. *)
ExpectedFileSample(line) ==
    CASE line = D0 -> S0
      [] line = D1 -> S1
      [] line = D2 -> S2

ExpectedDevSample(line, t) ==
    CASE line = G0 -> [f \in {"a", "b", TIME_COMPUTER} |->
                          IF f = "a" THEN FloatVal(1, 0)
                          ELSE IF f = "b" THEN FloatVal(4, 0)
                          ELSE StrVal(NatStr(t))]
      [] line = G1 -> [f \in {"a", "b", TIME_COMPUTER} |->
                          IF f = "a" THEN FloatVal(15, 1)
                          ELSE IF f = "b" THEN FloatVal(5, 0)
                          ELSE StrVal(NatStr(t))]

IsData(line) == line[1] # "#"

IsWellFormedDevLine(line) == line \in {G0, G1}

Take(q, n) == SubSeq(q, 1, Min(n, Len(q)))

(* What the source yields from the state `pre` on: every remaining data line
   of the file; every well-formed line the device has sent, or nothing when
   the flag was already set. *)
Yield(pre) ==
    IF kind = "file"
    THEN LET rest == SelectSeq(SubSeq(disk, pre.file.pos + 1, Len(disk)), IsData)
         IN  [i \in 1..Len(rest) |-> ExpectedFileSample(rest[i])]
    ELSE IF pre.stop THEN << >>
    ELSE LET rest == SelectSeq(pre.dev, IsWellFormedDevLine)
         IN  [i \in 1..Len(rest) |-> ExpectedDevSample(rest[i], now)]

WasOpen(pre) == IF kind = "file" THEN pre.file.state = "open" ELSE pre.port = "open"

(* C5 as stated: once stop_sampling is True it stays True after any later
   operation (readsample, readsamples, open, close) and every later
   readsample returns None. *)
C5_ExhaustionMonotoneAnyOp ==
    [][stop_sampling =>
          /\ stop_sampling'
          /\ lastOp'.op = "readsample" => (ret' = None /\ err' = "none")]_vars

(* C5 amended: once stop_sampling is True it stays True after any later
   readsample, readsamples or close, and every later readsample on the still
   open source returns None, as long as open is not called again (open clears
   the flag of the live source and rewinds the replay file). *)
C5_ExhaustionMonotoneReads ==
    [][(stop_sampling /\ lastOp'.op # "open") =>
          /\ stop_sampling'
          /\ (lastOp'.op = "readsample" /\ SourceOpen /\ ~srcHist.rewound) =>
                (ret' = None /\ err' = "none")]_vars

(* The live source was exhausted, a well-formed line came in afterwards, and
   the next readsample consumed it and returned None. *)
C5_Witness ==
    /\ kind = "serial"
    /\ lastOp.op = "readsample"
    /\ lastOp.pre.stop
    /\ lastOp.pre.port = "open"
    /\ lastOp.pre.dev # << >>
    /\ LineOK(Head(lastOp.pre.dev), SerialFields)
    /\ stop_sampling
    /\ ret = None
    /\ err = "none"

(* C6: readsamples(n) on an open source returns, without raising, the
   samples of successive readsample calls in read order: exactly n when the
   source yields at least n before exhaustion, otherwise all it yields
   (possibly none); never the sentinel; and n = -1 on the replay source
   returns every remaining sample. *)
C6_ReadSamples ==
    (lastOp.op = "readsamples" /\ WasOpen(lastOp.pre)) =>
        LET all == Yield(lastOp.pre)
            n == lastOp.n
        IN  /\ err = "none"
            /\ ret.t = "list"
            /\ \A i \in 1..Len(ret.v) : ret.v[i] # None
            /\ ret.v = (IF n = -1 /\ kind = "file" THEN all
                        ELSE IF n <= 0 THEN << >>
                        ELSE Take(all, n))
            /\ (n > 0 /\ Len(ret.v) < n) => stop_sampling

(* Two samples were asked of a replay file that had one left: a partial
   result, and the source is exhausted. *)
C6_Witness ==
    /\ kind = "file"
    /\ lastOp.op = "readsamples"
    /\ lastOp.n = 2
    /\ lastOp.pre.file.state = "open"
    /\ ~lastOp.pre.stop
    /\ err = "none"
    /\ ret.t = "list"
    /\ Len(ret.v) = 1
    /\ stop_sampling

(* C8: close() after a failed or partial open (no file handle acquired, or
   the serial connection not created) completes without raising. *)
C8_CloseAfterFailedOpen ==
    (/\ lastOp.op = "close"
     /\ srcHist.openCalled
     /\ lastOp.pre.file.state = "None"
     /\ lastOp.pre.port = "None") => err = "none"

(* The positions of the well-formed lines of a queue, and the queue after
   its k-th well-formed line (nothing when it has fewer). *)
GoodAt(q) == {i \in 1..Len(q) : IsWellFormedDevLine(q[i])}

RECURSIVE AfterGood(_, _)
AfterGood(q, k) ==
    IF k = 0 THEN q
    ELSE IF q = << >> THEN << >>
    ELSE AfterGood(Tail(q), IF IsWellFormedDevLine(Head(q)) THEN k - 1 ELSE k)

(* C11: on the open live source that has not stopped, a line that fails
   numeric parsing or has the wrong number of fields is discarded: no error
   escapes readsample, the sample returned is that of the first well-formed
   line waiting (None, and the flag, when there is none), the lines up to it
   are consumed, and readsamples(n) counts well-formed lines only. *)
C11_DiscardAndRetry ==
    (/\ kind = "serial"
     /\ lastOp.op \in {"readsample", "readsamples"}
     /\ lastOp.pre.port = "open"
     /\ ~lastOp.pre.stop) =>
        LET q == lastOp.pre.dev
            good == SelectSeq(q, IsWellFormedDevLine)
        IN  /\ err = "none"
            /\ lastOp.op = "readsample" =>
                  IF good = << >>
                  THEN ret = None /\ stop_sampling /\ dev = << >>
                  ELSE /\ ret = SampleRet(ExpectedDevSample(good[1], now))
                       /\ ~stop_sampling
                       /\ dev = AfterGood(q, 1)
            /\ (lastOp.op = "readsamples" /\ lastOp.n > 0) =>
                  /\ ret.v = [i \in 1..Min(lastOp.n, Len(good)) |->
                                 ExpectedDevSample(good[i], now)]
                  /\ dev = IF Len(good) >= lastOp.n THEN AfterGood(q, lastOp.n)
                           ELSE << >>

(* A line one field short and a line of garbage were waiting before a
   well-formed line: readsample returned the sample of the well-formed one. *)
C11_Witness ==
    /\ kind = "serial"
    /\ lastOp.op = "readsample"
    /\ lastOp.pre.port = "open"
    /\ ~lastOp.pre.stop
    /\ lastOp.pre.dev = <<ShortLine, GarbageLine, G1>>
    /\ err = "none"
    /\ ret = SampleRet(ExpectedDevSample(G1, now))
    /\ dev = << >>

-----------------------------------------------------------------------------
(* A replay source over a file that was not written by the sink: some data
   lines hold a field that is no number. *)

ReplayLines == {ColumnsLine(Columns), D0, BadLine, BadLast}

InitReplay ==
    /\ kind = "file"
    /\ filename = "log.txt"
    /\ disk \in SeqsUpTo(ReplayLines, MaxLines)
    /\ file = [state |-> "None", pos |-> 0]
    /\ port = "None"
    /\ dev = << >>
    /\ arrived = << >>
    /\ stop_sampling = FALSE
    /\ srcHist = [openCalled |-> FALSE, rewound |-> FALSE]
    /\ IdleBuf /\ IdleSink /\ IdleRun /\ IdleCall

NextReplay == SrcOpen \/ SrcClose \/ SrcReadSample \/ SrcReadSamples

SpecReplay == InitReplay /\ [][NextReplay]_vars

IsMalformed(line) == line \in {BadLine, BadLast}

(* The positions of the data lines after position p. *)
DataAfter(p) == {i \in (p + 1)..Len(disk) : IsData(disk[i])}

FirstOf(S) == CHOOSE i \in S : \A j \in S : i <= j

(* C17: when the data line readsample comes to has a field, other than the
   first, that is no floating-point number, readsample raises ValueError: no
   sample is returned, the file stands just after that line (the following
   line has not been read) and the flag is as it was. *)
C17_ReplayParseErrorFatal ==
    (/\ lastOp.op = "readsample"
     /\ lastOp.pre.file.state = "open"
     /\ DataAfter(lastOp.pre.file.pos) # {}
     /\ IsMalformed(disk[FirstOf(DataAfter(lastOp.pre.file.pos))])) =>
        /\ err = "ValueError"
        /\ ret = None
        /\ file.pos = FirstOf(DataAfter(lastOp.pre.file.pos))
        /\ stop_sampling = lastOp.pre.stop

(* A malformed line stood before a well-formed one, after a comment:
   readsample raised and the well-formed line was left unread. *)
C17_Witness ==
    /\ disk = <<ColumnsLine(Columns), BadLast, D0>>
    /\ lastOp.op = "readsample"
    /\ lastOp.pre.file = [state |-> "open", pos |-> 0]
    /\ err = "ValueError"
    /\ file.pos = 2

(* C21: readsample on the open replay source reads on to the first line that
   does not begin with '#', however many comment lines stand before it and
   wherever they stand, and returns that line's sample, its fields given to
   the configured columns by position; when no such line is left it returns
   None and sets the flag, without raising, and so does every read after. *)
C21_ReplayReadsample ==
    (/\ kind = "file"
     /\ lastOp.op = "readsample"
     /\ lastOp.pre.file.state = "open") =>
        LET rest == DataAfter(lastOp.pre.file.pos)
        IN  /\ err = "none"
            /\ IF rest = {}
               THEN ret = None /\ stop_sampling /\ file.pos = Len(disk)
               ELSE /\ ret = SampleRet(ExpectedFileSample(disk[FirstOf(rest)]))
                    /\ file.pos = FirstOf(rest)
                    /\ stop_sampling = lastOp.pre.stop

(* Two comment lines stood between the first sample and the second:
   readsample went past both and returned the second. *)
C21_Witness ==
    /\ kind = "file"
    /\ disk = <<ColumnsLine(Columns), ColumnsLine(Columns), D1>>
    /\ lastOp.op = "readsample"
    /\ lastOp.pre.file = [state |-> "open", pos |-> 0]
    /\ ret = SampleRet(S1)
    /\ file.pos = 3

-----------------------------------------------------------------------------
(* A source of either kind over any lines: the replay file may hold
   malformed, short, long and blank lines, the device may send short lines
   and garbage. *)

AnyFileLines == {ColumnsLine(Columns), D0, BadLine, ShortData, LongData, BlankLine}

(* A device line with a field too many. *)
LongDevLine == <<"1", ".", "0", " ", "2", ".", "0", " ", "3", ".", "0", "\n">>

AnyDevLines == {G0, ShortLine, GarbageLine, LongDevLine, BlankLine}

InitLines ==
    /\ kind \in {"file", "serial"}
    /\ filename = (IF kind = "file" THEN "log.txt" ELSE "COM5")
    /\ disk \in (IF kind = "file" THEN SeqsUpTo(AnyFileLines, MaxLines) ELSE {<< >>})
    /\ file = [state |-> "None", pos |-> 0]
    /\ port = "None"
    /\ dev = << >>
    /\ arrived = << >>
    /\ stop_sampling = FALSE
    /\ srcHist = [openCalled |-> FALSE, rewound |-> FALSE]
    /\ IdleBuf /\ IdleSink /\ IdleRun /\ IdleCall

(* The device sends one more line, of any kind. *)
AnyDevArrive ==
    \E line \in AnyDevLines :
        /\ kind = "serial"
        /\ Len(dev) < MaxDev
        /\ dev' = Append(dev, line)
        /\ lastOp' = [op |-> "arrive"]
        /\ UNCHANGED <<file, port, stop_sampling, srcHist, ret, err>>
        /\ SrcFrame

NextLines == SrcOpen \/ SrcClose \/ SrcReadSample \/ SrcReadSamples \/ AnyDevArrive

SpecLines == InitLines /\ [][NextLines]_vars

(* The keys every sample of the source must have. *)
SourceKeys ==
    IF kind = "file" THEN {"time", "a", "b"} ELSE {"a", "b", "time_computer"}

(* C23: every sample a source returns, from readsample or in the list of
   readsamples, has the same keys: the configured columns for the replay
   source, the device's columns and the capture time for the live source,
   whatever the lines are. *)
C23_UniformKeySet ==
    /\ ret.t = "sample" => DOMAIN ret.v = SourceKeys
    /\ ret.t = "list" => \A i \in 1..Len(ret.v) : DOMAIN ret.v[i] = SourceKeys

(* readsamples went over a line with a field too many and a well-formed
   line: two samples came back, both with the three configured columns. *)
C23_Witness ==
    /\ kind = "file"
    /\ disk = <<LongData, D0>>
    /\ lastOp.op = "readsamples"
    /\ err = "none"
    /\ ret.t = "list"
    /\ Len(ret.v) = 2
    /\ DOMAIN ret.v[1] = {"time", "a", "b"}

-----------------------------------------------------------------------------
(* DataExplorer: the file is read whole inside the source's scope, then a
   DataBuffers is made and extended with the samples. *)

ExploreFrame == UNCHANGED <<sinkVars, cfg, windowClosed, run, pulled, view, now, kind,
                            filename, disk, port, dev, arrived, srcHist>>

InitExplore ==
    /\ kind = "file"
    /\ filename = "log.txt"
    /\ disk \in {<<StampLine(0), ColumnsLine(Columns)>> \o body :
                    body \in SeqsUpTo({D0, D1, D2}, MaxLines)}
    /\ file = [state |-> "None", pos |-> 0]
    /\ port = "None"
    /\ dev = << >>
    /\ arrived = << >>
    /\ stop_sampling = FALSE
    /\ srcHist = [openCalled |-> FALSE, rewound |-> FALSE]
    /\ IdleBuf /\ IdleSink /\ IdleCall
    /\ cfg = NoCfg
    /\ windowClosed = FALSE
    /\ run = [srcOpen |-> 0, srcClose |-> 0, sinkOpen |-> 0, sinkClose |-> 0]
    /\ pulled = << >>
    /\ view = NoView
    /\ pc = "explore_enter"

(* with io.ReadSensorFile(...) as idev: __enter__ opens the file. *)
ExploreEnter ==
    \E ok \in BOOLEAN :
        /\ pc = "explore_enter"
        /\ lastOp' = [op |-> "open", pre |-> Before]
        /\ IF ok
           THEN /\ file' = [state |-> "open", pos |-> 0]
                /\ err' = "none"
                /\ pc' = "explore_read"
           ELSE /\ UNCHANGED file
                /\ err' = "IOError"
                /\ pc' = "explore_failed"
        /\ UNCHANGED <<bufVars, stop_sampling, ret>>
        /\ ExploreFrame

(* samples = idev.readsamples() *)
ExploreRead ==
    /\ pc = "explore_read"
    /\ lastOp' = [op |-> "readsamples", n |-> -1, pre |-> Before]
    /\ LET r == File_readsamples(disk, Columns, file.pos, stop_sampling, -1, << >>)
       IN  /\ ret' = r.ret
           /\ err' = r.err
           /\ stop_sampling' = r.stop
           /\ file' = [file EXCEPT !.pos = r.pos]
    /\ pc' = "explore_exit"
    /\ UNCHANGED bufVars
    /\ ExploreFrame

(* The end of the with block: __exit__ closes the file. *)
ExploreExit ==
    /\ pc = "explore_exit"
    /\ lastOp' = [op |-> "close", pre |-> Before]
    /\ file' = [file EXCEPT !.state = "closed"]
    /\ pc' = "explore_buffers"
    /\ UNCHANGED <<bufVars, stop_sampling, ret, err>>
    /\ ExploreFrame

(* buffers = io.DataBuffers(maxlen=m); buffers.extend(samples).  DataExplorer
   itself passes m = len(samples). *)
ExploreBuffers ==
    \E m \in MaxlenChoices :
        /\ pc = "explore_buffers"
        /\ maxlen' = m
        /\ data' = DataBuffers_extend(<< >>, m, ret.v)
        /\ appended' = ret.v
        /\ sides' = IF ret.v = << >> THEN {} ELSE {"right"}
        /\ lastOp' = [op |-> "extend"]
        /\ pc' = "explore_done"
        /\ UNCHANGED <<file, stop_sampling, ret, err>>
        /\ ExploreFrame

NextExplore == ExploreEnter \/ ExploreRead \/ ExploreExit \/ ExploreBuffers

SpecExplore == InitExplore /\ [][NextExplore]_vars

(* C10: reading every sample of a log file (header lines, then k data lines)
   and extending a DataBuffers of maxlen = m with them leaves, for each
   configured column, exactly the values of the last min(k, m) data lines in
   file order. *)
C10_ReplayIntoBoundedBuffer ==
    pc = "explore_done" =>
        LET lines == SelectSeq(disk, IsData)
        IN  \A f \in ColumnSet :
                Field(data, maxlen, f).items =
                    LastK([i \in 1..Len(lines) |-> ExpectedFileSample(lines[i])[f]],
                          Cap(Len(lines)))

(* The documented scenario: lines t0, t1, t2 and maxlen = 2. *)
C10_Witness ==
    /\ pc = "explore_done"
    /\ disk = <<StampLine(0), ColumnsLine(Columns), D0, D1, D2>>
    /\ maxlen = 2
    /\ data["time"].items = <<T1, T2>>
    /\ data["a"].items = <<FloatVal(15, 1), FloatVal(2, 0)>>
    /\ data["b"].items = <<FloatVal(25, 1), FloatVal(3, 0)>>

-----------------------------------------------------------------------------
(* WriteSensorFile. *)

MaxWritten == 2

(* os.path.dirname of the destinations the model uses. *)
Dirname(name) ==
    CASE name = "data/log.txt" -> "data"
      [] name = "data/run/log.txt" -> "data/run"
      [] OTHER -> ""

(* The directories os.makedirs(path) makes sure exist: path and those above. *)
Ancestors(path) == IF path = "data/run" THEN {"data", "data/run"} ELSE {path}

(* io.mkdir_p: os.makedirs(path) over the existing paths; an existing
   directory is accepted (EEXIST and isdir), any other failure is raised, and
   makedirs("") fails as there is no such path.  [fs, err]. *)
mkdir_p(path, paths) ==
    IF path = "" THEN [fs |-> paths, err |-> "OSError"]
    ELSE IF path \in paths THEN [fs |-> paths, err |-> "none"]
    ELSE [fs |-> paths \cup Ancestors(path), err |-> "none"]

(* if self.filename: the destination is neither None nor empty. *)
Truthy(name) == name \notin {"None", ""}

(* __enter__: [fp, out, fs, err].  The directory is made, the file is created
   empty (open may fail), then the two header lines are written. *)
Sink_enter(name, cols, o, t, ok, paths) ==
    IF ~Truthy(name) THEN [fp |-> "None", out |-> o, fs |-> paths, err |-> "none"]
    ELSE LET made == mkdir_p(Dirname(name), paths)
         IN  IF made.err # "none"
             THEN [fp |-> "None", out |-> o, fs |-> made.fs, err |-> made.err]
             ELSE IF ~ok
             THEN [fp |-> "None", out |-> o, fs |-> made.fs, err |-> "IOError"]
             ELSE [fp |-> "open", out |-> <<StampLine(t), ColumnsLine(cols)>>,
                   fs |-> made.fs \cup {name}, err |-> "none"]

(* A mutant of SampleLine: the values are joined without a separator. *)
SampleLine_NoTab(sample, cols) ==
    join(<< >>, [i \in 1..Len(cols) |-> str(sample[cols[i]])]) \o <<"\n">>

(* "\t".join([str(sample[item]) for item in self._file_columns]) + "\n" *)
SampleLine(sample, cols) ==
    join(<<"\t">>, [i \in 1..Len(cols) |-> str(sample[cols[i]])]) \o <<"\n">>

(* A mutant of WriteSamples: the lines of a batch are written last sample
   first. *)
WriteSamples_Reversed(fp, cols, o, samples) ==
    IF \E k \in 1..Len(samples) : \E i \in 1..Len(cols) : cols[i] \notin DOMAIN samples[k]
    THEN [out |-> o, err |-> "KeyError"]
    ELSE IF fp = "None" /\ samples # << >> THEN [out |-> o, err |-> "AttributeError"]
    ELSE IF fp = "closed" /\ samples # << >> THEN [out |-> o, err |-> "ValueError"]
    ELSE [out |-> o \o [k \in 1..Len(samples) |->
                           SampleLine(samples[Len(samples) + 1 - k], cols)],
          err |-> "none"]

(* _write_sample for each sample in turn: [out, err]. *)
RECURSIVE WriteSamples(_, _, _, _)
WriteSamples(fp, cols, o, samples) ==
    IF samples = << >> THEN [out |-> o, err |-> "none"]
    ELSE IF \E i \in 1..Len(cols) : cols[i] \notin DOMAIN Head(samples)
    THEN [out |-> o, err |-> "KeyError"]
    ELSE IF fp = "None" THEN [out |-> o, err |-> "AttributeError"]
    ELSE IF fp = "closed" THEN [out |-> o, err |-> "ValueError"]
    ELSE WriteSamples(fp, cols, Append(o, SampleLine(Head(samples), cols)),
                      Tail(samples))

(* A mutant of Sink_write: the destination is not looked at. *)
Sink_write_Always(name, fp, cols, o, samples) == WriteSamples(fp, cols, o, samples)

(* write: nothing is done when the destination is None. *)
Sink_write(name, fp, cols, o, samples) ==
    IF name = "None" THEN [out |-> o, err |-> "none"]
    ELSE WriteSamples(fp, cols, o, samples)

(* __exit__: an opened file is flushed and closed. *)
Sink_exit(fp) == IF fp # "None" THEN "closed" ELSE fp

-----------------------------------------------------------------------------
(* A sink, constructed with any destination, entered, written to and left;
   write may also be called outside the scope. *)

SinkNames == {"None", "", "log.txt", "data/log.txt", "data/run/log.txt"}

(* A sample holding an int and a negative number, and one without column b. *)
SInt == Sample(T2, IntVal(2), FloatVal(-105, 2))
SNoB == [f \in {"time", "a"} |-> IF f = "time" THEN T2 ELSE FloatVal(15, 1)]

SinkSamples == {S0, S1, SInt, SNoB}

SinkBefore == [out |-> out, fp |-> sink.fp, fs |-> fs]

SinkFrame == UNCHANGED <<bufVars, srcVars, cfg, windowClosed, run, pulled, view, ret,
                         now>>

InitSink ==
    /\ sink \in [filename : SinkNames, fp : {"None"}]
    /\ out = << >>
    /\ written = << >>
    /\ fs \in {{}, {"data"}}
    /\ IdleBuf /\ IdleSrc /\ IdleCall
    /\ cfg = NoCfg
    /\ windowClosed = FALSE
    /\ run = [srcOpen |-> 0, srcClose |-> 0, sinkOpen |-> 0, sinkClose |-> 0]
    /\ pulled = << >>
    /\ view = NoView
    /\ pc = "sink_new"

(* with WriteSensorFile(...) as outfile: __enter__; when it raises the scope
   is not entered. *)
SinkEnter ==
    \E ok \in BOOLEAN :
        /\ pc = "sink_new"
        /\ LET r == Sink_enter(sink.filename, Columns, out, now, ok, fs)
           IN  /\ sink' = [sink EXCEPT !.fp = r.fp]
               /\ out' = r.out
               /\ fs' = r.fs
               /\ err' = r.err
               /\ pc' = IF r.err = "none" THEN "sink_in" ELSE "sink_failed"
        /\ lastOp' = [op |-> "enter", ok |-> ok, pre |-> SinkBefore]
        /\ UNCHANGED written
        /\ SinkFrame

(* outfile.write(batch), before, inside or after the scope. *)
SinkWrite ==
    \E batch \in SeqsUpTo(SinkSamples, MaxBatch) :
        /\ pc \in {"sink_new", "sink_in", "sink_out"}
        /\ Len(written) + Len(batch) <= MaxWritten
        /\ LET r == Sink_write(sink.filename, sink.fp, Columns, out, batch)
           IN  /\ out' = r.out
               /\ err' = r.err
        /\ written' = written \o batch
        /\ lastOp' = [op |-> "write", batch |-> batch, pre |-> SinkBefore]
        /\ UNCHANGED <<sink, fs, pc>>
        /\ SinkFrame

(* The end of the with block: __exit__. *)
SinkExit ==
    /\ pc = "sink_in"
    /\ sink' = [sink EXCEPT !.fp = Sink_exit(sink.fp)]
    /\ lastOp' = [op |-> "exit", pre |-> SinkBefore]
    /\ pc' = "sink_out"
    /\ UNCHANGED <<out, written, fs, err>>
    /\ SinkFrame

NextSink == SinkEnter \/ SinkWrite \/ SinkExit

SpecSink == InitSink /\ [][NextSink]_vars

(* C12: with the destination None, entering the scope opens no file, and
   every write, for any batch, raises nothing and changes nothing: no file
   pointer, no file, no line. *)
C12_OptionalSink ==
    sink.filename = "None" =>
        /\ sink.fp = "None"
        /\ out = << >>
        /\ fs \subseteq {"data"}
        /\ lastOp.op \in {"enter", "write"} =>
              /\ err = "none"
              /\ SinkBefore = lastOp.pre

(* Inside the scope of a sink without destination a batch of two samples was
   written. *)
C12_Witness ==
    /\ sink.filename = "None"
    /\ pc = "sink_in"
    /\ lastOp.op = "write"
    /\ Len(lastOp.batch) = 2
    /\ err = "none"
    /\ out = << >>

(* C13: entering the scope with a destination set creates the file and
   writes the two header lines before anything else, whether the parent
   directory exists, is absent, or the destination is a bare file name (the
   environment letting the file be opened). *)
C13_SinkStart ==
    (/\ lastOp.op = "enter"
     /\ sink.filename \notin {"None", ""}
     /\ lastOp.ok) =>
        /\ err = "none"
        /\ sink.fp = "open"
        /\ sink.filename \in fs
        /\ Dirname(sink.filename) # "" => Dirname(sink.filename) \in fs
        /\ out = <<StampLine(now), ColumnsLine(Columns)>>

(* The lines the samples stand for, written out by hand. *)
ExpectedLine(sample) ==
    CASE sample = S0 -> <<"t", "0", "\t", "1", ".", "0", "\t", "2", ".", "0", "\n">>
      [] sample = S1 -> <<"t", "1", "\t", "1", ".", "5", "\t", "2", ".", "5", "\n">>
      [] sample = SInt ->
             <<"t", "2", "\t", "2", "\t", "-", "1", ".", "0", "5", "\n">>

(* The samples of a batch before the first that lacks a column. *)
RECURSIVE Complete(_)
Complete(batch) ==
    IF batch = << >> \/ DOMAIN Head(batch) # ColumnSet THEN << >>
    ELSE <<Head(batch)>> \o Complete(Tail(batch))

(* C26: for every destination (None, the empty string, a path) and every
   sequence of scope entry and write calls, a write adds lines only to a file
   the scope entry opened; and inside a scope whose entry opened no file, a
   write of samples that hold every column changes nothing and raises
   nothing. *)
C26_WriteOnlyIfOpened ==
    lastOp.op = "write" =>
        /\ (out # lastOp.pre.out => lastOp.pre.fp = "open")
        /\ (/\ pc = "sink_in"
            /\ lastOp.pre.fp = "None"
            /\ Complete(lastOp.batch) = lastOp.batch) =>
               (err = "none" /\ out = lastOp.pre.out)

(* C14: inside the scope the file is the two header lines followed by sample
   lines only; a write leaves every earlier line as it was and adds one line
   per sample, in the order passed, each listing the values in column
   order; leaving the scope alters nothing. *)
C14_AppendOnly ==
    sink.fp # "None" =>
        /\ Len(out) >= 2
        /\ out[1] = StampLine(now)
        /\ out[2] = ColumnsLine(Columns)
        /\ \A i \in 3..Len(out) : IsData(out[i])
        /\ (lastOp.op = "write" /\ sink.fp = "open") =>
              LET put == Complete(lastOp.batch)
              IN  /\ out = lastOp.pre.out \o [i \in 1..Len(put) |-> ExpectedLine(put[i])]
                  /\ err = "none" <=> put = lastOp.batch
        /\ lastOp.op = "exit" => out = lastOp.pre.out

(* Two batches were written inside the scope: the second added its line
   after the first's. *)
C14_Witness ==
    /\ pc = "sink_in"
    /\ sink.fp = "open"
    /\ lastOp.op = "write"
    /\ lastOp.batch = <<SInt>>
    /\ Len(lastOp.pre.out) = 3
    /\ lastOp.pre.out[3] = ExpectedLine(S1)
    /\ Len(out) = 4
    /\ out[4] = ExpectedLine(SInt)

-----------------------------------------------------------------------------
(* Round trip: samples are written through the sink, then the file is read
   back with ReadSensorFile.readsamples() under the same columns. *)

Hash0 == StrVal(<<"#", "0">>)
EmptyToken == StrVal(<< >>)

(* Samples carrying every configured column: the first a whitespace-free
   token, the others numbers (floats, and an int). *)
RTSamples ==
    {Sample(t, a, FloatVal(25, 1)) :
        t \in {T0, T1, Hash0, EmptyToken},
        a \in {FloatVal(15, 1), IntVal(2), FloatVal(-105, 2)}}

RTFrame == UNCHANGED <<bufVars, cfg, windowClosed, run, pulled, view, now, kind, port,
                       dev, arrived, srcHist>>

InitRT ==
    /\ sink = [filename |-> "data/log.txt", fp |-> "None"]
    /\ out = << >>
    /\ written = << >>
    /\ kind = "file"
    /\ filename = "data/log.txt"
    /\ disk = << >>
    /\ file = [state |-> "None", pos |-> 0]
    /\ port = "None"
    /\ dev = << >>
    /\ arrived = << >>
    /\ stop_sampling = FALSE
    /\ srcHist = [openCalled |-> FALSE, rewound |-> FALSE]
    /\ IdleBuf /\ IdleCall
    /\ cfg = NoCfg
    /\ windowClosed = FALSE
    /\ run = [srcOpen |-> 0, srcClose |-> 0, sinkOpen |-> 0, sinkClose |-> 0]
    /\ pulled = << >>
    /\ view = NoView
    /\ fs = {}
    /\ pc = "rt_enter"

RTSinkEnter ==
    /\ pc = "rt_enter"
    /\ LET r == Sink_enter(sink.filename, Columns, out, now, TRUE, fs)
       IN  /\ sink' = [sink EXCEPT !.fp = r.fp]
           /\ out' = r.out
           /\ fs' = r.fs
           /\ err' = r.err
    /\ lastOp' = [op |-> "enter"]
    /\ pc' = "rt_write"
    /\ UNCHANGED <<written, disk, file, filename, stop_sampling, ret>>
    /\ RTFrame

RTSinkWrite ==
    \E batch \in SeqsUpTo(RTSamples, MaxBatch) :
        /\ pc = "rt_write"
        /\ Len(written) + Len(batch) <= MaxWritten
        /\ LET r == Sink_write(sink.filename, sink.fp, Columns, out, batch)
           IN  /\ out' = r.out
               /\ err' = r.err
        /\ written' = written \o batch
        /\ lastOp' = [op |-> "write"]
        /\ UNCHANGED <<sink, fs, pc, disk, file, filename, stop_sampling, ret>>
        /\ RTFrame

RTSinkExit ==
    /\ pc = "rt_write"
    /\ sink' = [sink EXCEPT !.fp = Sink_exit(sink.fp)]
    /\ lastOp' = [op |-> "exit"]
    /\ pc' = "rt_open"
    /\ UNCHANGED <<out, written, fs, disk, file, filename, stop_sampling, ret, err>>
    /\ RTFrame

(* The replay source opens the file the sink wrote. *)
RTOpen ==
    /\ pc = "rt_open"
    /\ disk' = out
    /\ file' = [state |-> "open", pos |-> 0]
    /\ lastOp' = [op |-> "open", pre |-> Before]
    /\ pc' = "rt_read"
    /\ UNCHANGED <<sinkVars, filename, stop_sampling, ret, err>>
    /\ RTFrame

RTRead ==
    /\ pc = "rt_read"
    /\ lastOp' = [op |-> "readsamples", n |-> -1, pre |-> Before]
    /\ LET r == File_readsamples(disk, Columns, file.pos, stop_sampling, -1, << >>)
       IN  /\ ret' = r.ret
           /\ err' = r.err
           /\ stop_sampling' = r.stop
           /\ file' = [file EXCEPT !.pos = r.pos]
    /\ pc' = "rt_done"
    /\ UNCHANGED <<sinkVars, disk, filename>>
    /\ RTFrame

NextRT == RTSinkEnter \/ RTSinkWrite \/ RTSinkExit \/ RTOpen \/ RTRead

SpecRT == InitRT /\ [][NextRT]_vars

RoundTripEqual ==
    /\ err = "none"
    /\ ret.t = "list"
    /\ Len(ret.v) = Len(written)
    /\ \A i \in 1..Len(written) :
          /\ DOMAIN ret.v[i] = DOMAIN written[i]
          /\ \A f \in DOMAIN written[i] : PyEq(ret.v[i][f], written[i][f])
    /\ Len(out) = 2 + Len(written)
    /\ out[1][1] = "#" /\ out[2][1] = "#"

(* C9 as stated: for any list of N samples carrying every configured column
   (first column a whitespace-free token, the others numeric), writing them
   and reading the file back yields exactly N samples, in order, with the
   same keys and equal values; the two header lines produce no sample. *)
C9_RoundTripAnyToken ==
    pc = "rt_done" => RoundTripEqual

PlainToken(v) == v.t = "str" /\ v.s # << >> /\ Head(v.s) # "#"

(* C9 amended: the same, for samples whose first column is a non-empty
   whitespace-free token that does not begin with '#'. *)
C9_RoundTripPlainToken ==
    (pc = "rt_done" /\ \A i \in 1..Len(written) : PlainToken(written[i][Columns[1]]))
        => RoundTripEqual

(* Two samples went round, one of them holding the int 2, which reads back
   as the float 2.0. *)
C9_Witness ==
    /\ pc = "rt_done"
    /\ Len(written) = 2
    /\ \A i \in 1..Len(written) : PlainToken(written[i][Columns[1]])
    /\ written[1]["a"] = IntVal(2)
    /\ ret.t = "list"
    /\ Len(ret.v) = 2
    /\ ret.v[1]["a"] = FloatVal(2, 0)
    /\ written[2]["a"] = FloatVal(-105, 2)

-----------------------------------------------------------------------------
(* RealTimeAnalysis: the configuration is parsed, the source and the sink are
   entered in one with statement, and the loop runs until the stop condition
   holds. *)

MaxTime == 1
MaxRunLines == 2
MaxRunDev == 2

RunDevLines == {G0, ShortLine}

KChoices == 0..MaxBatch

(* The columns of the output section: those of the samples the source gives. *)
RunColumns == IF kind = "file" THEN Columns ELSE <<TIME_COMPUTER, "a", "b">>

(* The viewer's section: x_column and the plotted columns; "c" is a column no
   sample has.  Without a viewer the section is not read. *)
GuiSections == {[x_column |-> x, columns |-> cs] :
                   x \in {"a", "c"}, cs \in {<<"b">>, <<"b", "c">>}}

Configs ==
    {c \in [version : {1, 2}, hasOutput : BOOLEAN, hasGui : BOOLEAN,
            outfile : {"None", "data/log.txt", "log.txt"},
            limited : BOOLEAN, tmeas : {0}, K : KChoices,
            x_column : {"a", "c"}, columns : {<<"b">>, <<"b", "c">>}] :
        /\ [x_column |-> c.x_column, columns |-> c.columns] \in GuiSections
        /\ ~c.hasGui => (c.x_column = NoCfg.x_column /\ c.columns = NoCfg.columns)}

(* A mutant of set_data: _xlimits is the last and the first entry of the x
   field. *)
set_data_LastFirst(d, m, x_key, sensors, v) ==
    LET touched == {x_key} \cup {sensors[i] : i \in 1..Len(sensors)}
        after == [f \in (DOMAIN d) \cup touched |-> Field(d, m, f)]
        xs == after[x_key].items
        lines == [f \in {sensors[i] : i \in 1..Len(sensors)} |->
                     [x |-> xs, y |-> after[f].items]]
    IN  IF xs = << >>
        THEN [data |-> after, view |-> [v EXCEPT !.points = lines],
              err |-> "IndexError"]
        ELSE [data |-> after,
              view |-> [v EXCEPT !.points = lines,
                                 !.xlimits = <<xs[Len(xs)], xs[1]>>],
              err |-> "none"]

(* SensorViewerGUI.set_data: every read of data[...] goes through the
   defaultdict, which makes the deque of a field it does not hold; the lines
   get the x field and their own; _xlimits is the first and the last entry of
   the x field.  [data, view, err]. *)
set_data(d, m, x_key, sensors, v) ==
    LET touched == {x_key} \cup {sensors[i] : i \in 1..Len(sensors)}
        after == [f \in (DOMAIN d) \cup touched |-> Field(d, m, f)]
        xs == after[x_key].items
        lines == [f \in {sensors[i] : i \in 1..Len(sensors)} |->
                     [x |-> xs, y |-> after[f].items]]
    IN  IF xs = << >>
        THEN [data |-> after, view |-> [v EXCEPT !.points = lines],
              err |-> "IndexError"]
        ELSE [data |-> after,
              view |-> [v EXCEPT !.points = lines,
                                 !.xlimits = <<xs[1], xs[Len(xs)]>>],
              err |-> "none"]

(* SensorViewerGUI.set_xlim(): the axes get _xlimits, unless it is None. *)
set_xlim(v) == IF v.xlimits = [t |-> "None"] THEN v ELSE [v EXCEPT !.xlim = v.xlimits]

InitRun ==
    /\ cfg \in Configs
    /\ kind \in {"file", "serial"}
    /\ filename = (IF kind = "file" THEN "log.txt" ELSE "COM5")
    /\ disk \in (IF kind = "file"
                 THEN {<<StampLine(0), ColumnsLine(Columns)>> \o body :
                          body \in SeqsUpTo({D0, D1, BadLine}, MaxRunLines)}
                 ELSE {<< >>})
    /\ file = [state |-> "None", pos |-> 0]
    /\ port = "None"
    /\ dev = << >>
    /\ arrived = << >>
    /\ stop_sampling = FALSE
    /\ srcHist = [openCalled |-> FALSE, rewound |-> FALSE]
    /\ data = << >>
    /\ maxlen = 2
    /\ appended = << >>
    /\ sides = {}
    /\ sink = [filename |-> cfg.outfile, fp |-> "None"]
    /\ out = << >>
    /\ written = << >>
    /\ IdleCall
    /\ windowClosed = FALSE
    /\ run = [srcOpen |-> 0, srcClose |-> 0, sinkOpen |-> 0, sinkClose |-> 0]
    /\ pulled = << >>
    /\ view = NoView
    /\ fs = {}
    /\ pc = "start"

RunFrame == UNCHANGED <<cfg, kind, filename, disk, maxlen, srcHist, ret, arrived>>

(* A mutant of parse_config: the version is not looked at. *)
parse_config_AnyVersion(c) == "none"

(* parse_config: a version other than 2 is refused. *)
parse_config(c) == IF c.version # 2 THEN "ValueError" ELSE "none"

(* The configuration is parsed first.  Then the source is chosen: a replay
   source takes its columns from the output section. *)
RunStart ==
    /\ pc = "start"
    /\ lastOp' = [op |-> "start"]
    /\ IF parse_config(cfg) # "none" THEN err' = parse_config(cfg) /\ pc' = "done"
       ELSE IF kind = "file" /\ ~cfg.hasOutput THEN err' = "KeyError" /\ pc' = "done"
       ELSE err' = "none" /\ pc' = "enter_source"
    /\ UNCHANGED <<data, appended, sides, file, port, dev, stop_sampling, sink, out,
                   written, now, windowClosed, run>>
    /\ RunFrame /\ UNCHANGED <<fs, pulled, view>>

(* input_dev().__enter__(): open, which may fail; then no __exit__ follows. *)
RunEnterSource ==
    \E ok \in BOOLEAN :
        /\ pc = "enter_source"
        /\ lastOp' = [op |-> "open", pre |-> Before]
        /\ IF ok
           THEN /\ IF kind = "file"
                   THEN file' = [state |-> "open", pos |-> 0]
                        /\ UNCHANGED <<port, stop_sampling>>
                   ELSE port' = "open" /\ stop_sampling' = FALSE /\ UNCHANGED file
                /\ run' = [run EXCEPT !.srcOpen = @ + 1]
                /\ err' = "none"
                /\ pc' = "enter_sink"
           ELSE /\ err' = (IF kind = "file" THEN "IOError" ELSE "SerialException")
                /\ pc' = "done"
                /\ UNCHANGED <<file, port, stop_sampling, run>>
        /\ UNCHANGED <<data, appended, sides, dev, sink, out, written, now,
                       windowClosed>>
        /\ RunFrame /\ UNCHANGED <<fs, pulled, view>>

(* output_dev().__enter__(): without an output section output_dev() is None,
   which is no context manager; otherwise WriteSensorFile.__enter__. *)
RunEnterSink ==
    \E ok \in BOOLEAN :
        /\ pc = "enter_sink"
        /\ lastOp' = [op |-> "enter"]
        /\ IF ~cfg.hasOutput
           THEN /\ err' = "AttributeError"
                /\ pc' = "exit_source"
                /\ UNCHANGED <<sink, out, fs, run>>
           ELSE LET r == Sink_enter(sink.filename, RunColumns, out, now, ok, fs)
                IN  /\ sink' = [sink EXCEPT !.fp = r.fp]
                    /\ out' = r.out
                    /\ fs' = r.fs
                    /\ err' = r.err
                    /\ run' = [run EXCEPT !.sinkOpen =
                                  IF r.fp = "open" THEN @ + 1 ELSE @]
                    /\ pc' = IF r.err = "none" THEN "check" ELSE "exit_source"
        /\ UNCHANGED <<data, appended, sides, file, port, dev, stop_sampling, written,
                       now, windowClosed, pulled, view>>
        /\ RunFrame

(* A mutant of stop_condition: the viewer is not asked. *)
stop_condition_NoWindow ==
    \/ (cfg.limited /\ now > cfg.tmeas)
    \/ stop_sampling

(* stop_condition: the duration is over, or there is a viewer and its window
   is closed, or the source has stopped. *)
stop_condition ==
    \/ (cfg.limited /\ now > cfg.tmeas)
    \/ (cfg.hasGui /\ windowClosed)
    \/ stop_sampling

(* while not self.stop_condition(), and animate's first lines: the loop body
   runs only when the condition is false.  With a viewer the with block is
   left when plt.show() returns. *)
RunCheck ==
    /\ pc = "check"
    /\ lastOp' = [op |-> "check"]
    /\ pc' = IF stop_condition
             THEN (IF cfg.hasGui THEN "gui_wait" ELSE "exit_sink")
             ELSE "loop"
    /\ UNCHANGED <<data, appended, sides, file, port, dev, stop_sampling, sink, out,
                   written, now, windowClosed, run, err>>
    /\ RunFrame /\ UNCHANGED <<fs, pulled, view>>

(* plt.show() returns once the window is closed. *)
RunShowReturns ==
    /\ pc = "gui_wait"
    /\ windowClosed
    /\ lastOp' = [op |-> "show"]
    /\ pc' = "exit_sink"
    /\ UNCHANGED <<data, appended, sides, file, port, dev, stop_sampling, sink, out,
                   written, now, windowClosed, run, err>>
    /\ RunFrame /\ UNCHANGED <<fs, pulled, view>>

(* The batch the source gives the loop; the device may fail while read. *)
RunBatch(unplugged) ==
    IF kind = "file"
    THEN File_readsamples(disk, RunColumns, file.pos, stop_sampling, cfg.K, << >>)
         @@ [dev |-> dev]
    ELSE IF unplugged
    THEN [dev |-> dev, stop |-> stop_sampling, ret |-> None, err |-> "SerialException",
          pos |-> file.pos]
    ELSE Serial_readsamples(dev, SerialFields, stop_sampling, now, cfg.K, << >>)
         @@ [pos |-> file.pos]

(* What loop does with the buffers once the batch is merged: with a viewer
   and a buffer that holds a field, set_data then set_xlim; an error in
   set_data leaves the loop before set_xlim.  [data, view, err]. *)
Publish(merged, m, c, v) ==
    IF merged # << >> /\ c.hasGui
    THEN LET sd == set_data(merged, m, c.x_column, c.columns, v)
         IN  IF sd.err # "none" THEN sd
             ELSE [data |-> sd.data, view |-> set_xlim(sd.view), err |-> "none"]
    ELSE [data |-> merged, view |-> v, err |-> "none"]

(* loop: read a batch, write it, add it to the buffers at the left, show the
   buffers in the viewer.  An error leaves the with block. *)
RunLoop ==
    \E unplugged \in BOOLEAN :
        LET r == RunBatch(unplugged)
            samples == r.ret.v
            w == Sink_write(sink.filename, sink.fp, RunColumns, out, samples)
            shown == Publish(DataBuffers_extendleft(data, maxlen, samples), maxlen,
                             cfg, view)
        IN  /\ pc = "loop"
            /\ (unplugged => kind = "serial")
            /\ lastOp' = [op |-> "loop"]
            /\ file' = [file EXCEPT !.pos = r.pos]
            /\ dev' = r.dev
            /\ stop_sampling' = r.stop
            /\ IF r.err # "none"
               THEN /\ err' = r.err
                    /\ pc' = "exit_sink"
                    /\ UNCHANGED <<out, written, data, appended, sides, pulled, view>>
               ELSE /\ out' = w.out
                    /\ written' = written \o samples
                    /\ pulled' = pulled \o samples
                    /\ IF w.err # "none"
                       THEN /\ err' = w.err
                            /\ pc' = "exit_sink"
                            /\ UNCHANGED <<data, appended, sides, view>>
                       ELSE /\ err' = shown.err
                            /\ pc' = IF shown.err = "none" THEN "check"
                                     ELSE "exit_sink"
                            /\ data' = shown.data
                            /\ view' = shown.view
                            /\ appended' = appended \o samples
                            /\ sides' = IF samples = << >> THEN sides
                                        ELSE sides \cup {"left"}
            /\ UNCHANGED <<port, sink, fs, now, windowClosed, run>>
            /\ RunFrame

(* WriteSensorFile.__exit__: an opened file is flushed and closed. *)
RunExitSink ==
    /\ pc = "exit_sink"
    /\ lastOp' = [op |-> "exit"]
    /\ sink' = [sink EXCEPT !.fp = Sink_exit(sink.fp)]
    /\ run' = [run EXCEPT !.sinkClose = IF sink.fp = "open" THEN @ + 1 ELSE @]
    /\ pc' = "exit_source"
    /\ UNCHANGED <<data, appended, sides, file, port, dev, stop_sampling, out, written,
                   now, windowClosed, err>>
    /\ RunFrame /\ UNCHANGED <<fs, pulled, view>>

(* A mutant of Source_exit: the source is closed only on a normal exit. *)
Source_exit_SkipOnError(typ) == [close |-> typ = "none", suppress |-> typ = "none"]

(* ReadSensorAbstract.__exit__: close, whatever the exit; the return value
   suppresses nothing, as it is True only when there is no exception. *)
Source_exit(typ) == [close |-> TRUE, suppress |-> typ = "none"]

RunExitSource ==
    /\ pc = "exit_source"
    /\ lastOp' = [op |-> "close", pre |-> Before]
    /\ IF Source_exit(err).close
       THEN /\ IF kind = "file"
               THEN file' = [file EXCEPT !.state = "closed"]
                    /\ UNCHANGED <<port, stop_sampling>>
               ELSE port' = "closed" /\ stop_sampling' = TRUE /\ UNCHANGED file
            /\ run' = [run EXCEPT !.srcClose = @ + 1]
       ELSE UNCHANGED <<file, port, stop_sampling, run>>
    /\ pc' = "done"
    /\ UNCHANGED <<data, appended, sides, dev, sink, out, written, now, windowClosed,
                   err>>
    /\ RunFrame /\ UNCHANGED <<fs, pulled, view>>

(* The clock advances. *)
Tick ==
    /\ pc \in {"check", "loop"}
    /\ now < MaxTime
    /\ now' = now + 1
    /\ UNCHANGED <<bufVars, srcVars, sinkVars, cfg, windowClosed, pc, run, pulled,
                   view, ret, err, lastOp>>

(* The user closes the viewer's window. *)
WindowClose ==
    /\ cfg.hasGui
    /\ pc \in {"check", "loop", "gui_wait"}
    /\ ~windowClosed
    /\ windowClosed' = TRUE
    /\ UNCHANGED <<bufVars, srcVars, sinkVars, cfg, pc, run, pulled, view, ret, err,
                   lastOp, now>>

(* The device sends one more line while the run is acquiring. *)
RunDevArrive ==
    \E line \in RunDevLines :
        /\ kind = "serial"
        /\ pc \in {"check", "loop"}
        /\ Len(arrived) < MaxRunDev
        /\ arrived' = Append(arrived, line)
        /\ dev' = Append(dev, line)
        /\ UNCHANGED <<bufVars, sinkVars, runVars, ret, err, lastOp, now, kind,
                       filename, disk, file, port, stop_sampling, srcHist>>

NextRun ==
    \/ RunStart \/ RunEnterSource \/ RunEnterSink \/ RunCheck \/ RunShowReturns
    \/ RunLoop \/ RunExitSink \/ RunExitSource \/ Tick \/ WindowClose \/ RunDevArrive

SpecRun == InitRun /\ [][NextRun]_vars

-----------------------------------------------------------------------------
(* The headless run over a replay file: no viewer, no duration ceiling, a
   well-formed file, and any batch size the command line accepts (an int:
   negative, zero or positive). *)

HeadlessConfigs ==
    {[NoCfg EXCEPT !.outfile = o, !.K = k] :
        o \in {"None", "data/log.txt"}, k \in NChoices}

InitHeadless ==
    /\ cfg \in HeadlessConfigs
    /\ kind = "file"
    /\ filename = "log.txt"
    /\ disk \in {<<StampLine(0), ColumnsLine(Columns)>> \o body :
                    body \in SeqsUpTo({D0, D1, ColumnsLine(Columns)}, MaxRunLines)}
    /\ file = [state |-> "None", pos |-> 0]
    /\ port = "None"
    /\ dev = << >>
    /\ arrived = << >>
    /\ stop_sampling = FALSE
    /\ srcHist = [openCalled |-> FALSE, rewound |-> FALSE]
    /\ data = << >>
    /\ maxlen = 2
    /\ appended = << >>
    /\ sides = {}
    /\ sink = [filename |-> cfg.outfile, fp |-> "None"]
    /\ out = << >>
    /\ written = << >>
    /\ IdleCall
    /\ windowClosed = FALSE
    /\ run = [srcOpen |-> 0, srcClose |-> 0, sinkOpen |-> 0, sinkClose |-> 0]
    /\ pulled = << >>
    /\ view = NoView
    /\ fs = {}
    /\ pc = "start"

NextHeadless ==
    \/ RunStart \/ RunEnterSource \/ RunEnterSink \/ RunCheck \/ RunLoop
    \/ RunExitSink \/ RunExitSource

(* The positions of a headless run. *)
HeadlessPcs == {"start", "enter_source", "enter_sink", "check", "loop", "exit_sink",
                "exit_source", "done"}

(* The interpreter executes the next statement: the run leaves the position
   it is at.  Every step of NextHeadless is such a step, and one is possible
   at every position but "done". *)
HeadlessStep == pc # "done" /\ pc' \in HeadlessPcs /\ pc' # pc

HeadlessStepsMovePc == [][pc' # pc /\ pc \in HeadlessPcs /\ pc' \in HeadlessPcs]_vars

(* The program goes on running as long as it has a step to take. *)
SpecHeadless == InitHeadless /\ [][NextHeadless]_vars /\ WF_pc(HeadlessStep)

(* C24: the headless loop over a finite well-formed replay file, without a
   duration ceiling, eventually stops, for every batch size K (K = 0
   included), and when it has stopped without error every sample of the file
   has been pulled. *)
C24_ReplayRunTerminates ==
    /\ <>(pc = "done")
    /\ [](pc = "done" /\ err = "none" =>
             pulled = [i \in 1..Len(SelectSeq(disk, IsData)) |->
                          ExpectedFileSample(SelectSeq(disk, IsData)[i])])

(* C25: when the configuration has no output section the run still opens the
   source and enters the acquisition loop without a sink: once the source is
   open, the step entering the sink scope raises nothing and goes on to the
   loop, and an iteration of the loop buffers what it pulled and writes no
   line. *)
C25_AcquisitionWithoutSink ==
    (~cfg.hasOutput /\ run.srcOpen = 1) =>
        /\ (lastOp.op = "enter" => err = "none" /\ pc = "check")
        /\ (lastOp.op = "loop" => out = << >> /\ appended = pulled)

(* C7: in an acquisition run every source that was opened and every sink
   that was opened is closed exactly once on every exit path: the normal end
   of the loop, an early stop, an error inside the loop, and an error while
   the sink is opened after the source. *)
C7_ScopedResources ==
    /\ run.srcClose <= run.srcOpen /\ run.srcOpen <= 1
    /\ run.sinkClose <= run.sinkOpen /\ run.sinkOpen <= 1
    /\ pc = "done" =>
          /\ run.srcClose = run.srcOpen
          /\ run.sinkClose = run.sinkOpen
          /\ file.state # "open"
          /\ port # "open"
          /\ sink.fp # "open"

(* What the loop has taken from the source: the samples of the data lines
   the replay file was read past, or of the well-formed lines the device sent
   and the source consumed. *)
Consumed ==
    IF kind = "file" THEN SelectSeq(SubSeq(disk, 1, file.pos), IsData)
    ELSE SelectSeq(SubSeq(arrived, 1, Len(arrived) - Len(dev)), IsWellFormedDevLine)

(* The line of the destination file a sample of the run stands for. *)
ExpectedRunLine(sample) ==
    IF kind = "file" THEN ExpectedLine(sample)
    ELSE sample[TIME_COMPUTER].s
             \o <<"\t", "1", ".", "0", "\t", "4", ".", "0", "\n">>

(* C15: at the end of every iteration of the loop, the one in which the
   source stops included, every sample taken from the source has been passed
   to the sink in pull order (and stands in the file when there is one) and
   has been added to the buffers, which hold the newest first. *)
C15_NoSampleLost ==
    pc = "check" =>
        /\ Len(pulled) = Len(Consumed)
        /\ kind = "file" =>
              pulled = [i \in 1..Len(Consumed) |-> ExpectedFileSample(Consumed[i])]
        /\ written = pulled
        /\ appended = pulled
        /\ sink.fp = "open" =>
              /\ Len(out) = 2 + Len(pulled)
              /\ \A i \in 1..Len(pulled) : out[2 + i] = ExpectedRunLine(pulled[i])
        /\ \A i \in 1..Len(RunColumns) :
              LET f == RunColumns[i]
                  newestFirst == Reverse([k \in 1..Len(pulled) |-> pulled[k][f]])
              IN  Field(data, maxlen, f).items =
                      SubSeq(newestFirst, 1, Cap(Len(newestFirst)))

(* Two samples were asked of a replay file written to a destination file,
   one came back together with the end of the file: it was written and
   buffered, and the next check stops the loop. *)
C15_Witness ==
    /\ pc = "check"
    /\ kind = "file"
    /\ cfg.K = 2
    /\ stop_sampling
    /\ pulled = <<S1>>
    /\ sink.fp = "open"
    /\ out[3] = ExpectedLine(S1)
    /\ data["time"].items = <<T1>>

(* C18: with a configuration whose version is not 2 the run ends in
   ValueError at the start: at no time is a source opened, a destination
   directory or file created, or a sample read. *)
C18_VersionCheckedFirst ==
    (cfg.version # 2 \/ pc = "start") =>
        /\ pc \in {"start", "done"}
        /\ pc = "done" => err = "ValueError"
        /\ run.srcOpen = 0 /\ file.state = "None" /\ port = "None"
        /\ run.sinkOpen = 0 /\ sink.fp = "None" /\ fs = {} /\ out = << >>
        /\ file.pos = 0 /\ pulled = << >> /\ written = << >> /\ appended = << >>

(* A run over an existing replay file with a destination set and version 1
   has ended. *)
C18_Witness ==
    /\ cfg.version = 1
    /\ cfg.hasOutput
    /\ cfg.outfile = "data/log.txt"
    /\ kind = "file"
    /\ Len(disk) > 2
    /\ pc = "done"
    /\ err = "ValueError"

(* C19: showing the buffers in the viewer leaves DataBuffers.data as the
   merge left it, whatever columns the viewer is configured with: the fields
   are those the samples have, each holding the merged values. *)
C19_RendererLeavesBuffer ==
    /\ \A f \in DOMAIN data : \E i \in 1..Len(appended) : f \in DOMAIN appended[i]
    /\ \A f \in DOMAIN data :
          LET newestFirst == Reverse([k \in 1..Len(appended) |-> appended[k][f]])
          IN  data[f].items = SubSeq(newestFirst, 1, Cap(Len(newestFirst)))

(* The order of the numbers of the x column. *)
NumLE(v, w) == v.m * Pow10(w.e) <= w.m * Pow10(v.e)

MinOf(S) == CHOOSE v \in S : \A w \in S : NumLE(v, w)
MaxOf(S) == CHOOSE v \in S : \A w \in S : NumLE(w, v)

(* C20 as stated: after an iteration that merges a non-empty batch and shows
   it, the x limits given to the axes are (min, max) of the x column over the
   samples of that batch. *)
C20_XlimBatchMinMax ==
    [][(/\ pc = "loop" /\ pc' = "check"
        /\ cfg.hasGui
        /\ Len(pulled') > Len(pulled)) =>
           LET xs == {pulled'[i][cfg.x_column] : i \in (Len(pulled) + 1)..Len(pulled')}
           IN  view'.xlim = <<MinOf(xs), MaxOf(xs)>>]_vars

(* C20 amended: after an iteration that has shown the buffers, the x limits
   given to the axes are (first entry, last entry) of the buffer's x field
   after the merge: the x of the newest sample, then the x of the oldest
   sample the buffer still holds. *)
C20_XlimBufferEnds ==
    (pc = "check" /\ cfg.hasGui /\ pulled # << >>) =>
        LET n == Len(pulled)
        IN  view.xlim = <<pulled[n][cfg.x_column],
                          pulled[n - Cap(n) + 1][cfg.x_column]>>

(* The batch t0, t1 was merged at once and shown: the limits are the x of
   t1, then the x of t0. *)
C20_Witness ==
    /\ pc = "check"
    /\ cfg.hasGui
    /\ cfg.K = 2
    /\ pulled = <<S0, S1>>
    /\ view.xlim = <<FloatVal(15, 1), FloatVal(1, 0)>>

Running == {"check", "loop"}

(* A stop has been requested: the viewer was closed, or the duration is over
   the ceiling. *)
StopRequested ==
    \/ (cfg.hasGui /\ windowClosed)
    \/ (cfg.limited /\ now > cfg.tmeas)

(* The device reads (readline calls) of the loop step from the unprimed to
   the primed state: one for each line taken from the device, and one more
   when the last read returned nothing, which sets the flag. *)
DeviceReads ==
    (Len(dev) - Len(dev')) + (IF stop_sampling' /\ ~stop_sampling THEN 1 ELSE 0)

(* The lines the loop step took from the device and discarded. *)
Discarded ==
    Len(SelectSeq(SubSeq(dev, 1, Len(dev) - Len(dev')),
                  LAMBDA line : ~IsWellFormedDevLine(line)))

(* C22 as stated: with the live source, a batch started before the stop was
   seen makes at most K device reads, whatever the device delivers, and the
   check after it stops the loop. *)
C22_AtMostKReads ==
    [][(/\ kind = "serial"
        /\ pc = "loop" /\ pc' # "loop"
        /\ err' = "none"
        /\ StopRequested) =>
           /\ DeviceReads <= cfg.K
           /\ pc' = "check"
           /\ StopRequested']_vars

(* C22 amended: such a batch returns at most K samples and makes at most K
   device reads beyond the lines it discards, one read more for every
   malformed line the device delivers; the check after it stops the loop. *)
C22_AtMostKSamples ==
    [][(/\ kind = "serial"
        /\ pc = "loop" /\ pc' # "loop"
        /\ err' = "none"
        /\ StopRequested) =>
           /\ Len(pulled') - Len(pulled) <= cfg.K
           /\ DeviceReads <= cfg.K + Discarded
           /\ pc' = "check"
           /\ StopRequested']_vars

(* The window was closed; the batch of one sample then took two lines from
   the device, a short one and a well-formed one. *)
C22_Witness ==
    /\ kind = "serial"
    /\ cfg.hasGui /\ windowClosed
    /\ cfg.K = 1
    /\ lastOp.op = "loop"
    /\ pc = "check"
    /\ arrived = <<ShortLine, G0>>
    /\ dev = << >>
    /\ Len(pulled) = 1

(* C16: a stop-condition check ends the loop exactly when the elapsed time
   is over the ceiling, or there is a viewer and it reports closed, or the
   source's flag is set, and otherwise the loop body runs; the loop is left
   without an error only by such a check; and once it is left no batch is
   taken from the source, with or without a viewer. *)
C16_StopTransitions ==
    [][/\ (pc = "check" /\ pc' # "check") =>
             IF \/ (cfg.limited /\ now > cfg.tmeas)
                \/ (cfg.hasGui /\ windowClosed)
                \/ stop_sampling
             THEN pc' = (IF cfg.hasGui THEN "gui_wait" ELSE "exit_sink")
             ELSE pc' = "loop"
       /\ (pc \in Running /\ pc' \notin Running /\ err' = "none") => pc = "check"
       /\ (pc \in {"gui_wait", "exit_sink", "exit_source", "done"}) =>
             /\ pc' \notin Running
             /\ pulled' = pulled
             /\ file'.pos = file.pos
             /\ dev' = dev]_vars

(* The viewer-driven loop has stopped on the exhausted source after taking
   samples, and waits for the window, which is still open. *)
C16_Witness ==
    /\ pc = "gui_wait"
    /\ cfg.hasGui
    /\ ~windowClosed
    /\ stop_sampling
    /\ pulled # << >>
    /\ err = "none"

(* A malformed line raised inside the loop with source and sink both open,
   and both were closed on the way out. *)
C7_Witness ==
    /\ pc = "done"
    /\ err = "ValueError"
    /\ cfg.version = 2
    /\ run = [srcOpen |-> 1, srcClose |-> 1, sinkOpen |-> 1, sinkClose |-> 1]
    /\ file.state = "closed"
    /\ sink.fp = "closed"

====
